---------------------------- MODULE Spec2Model ----------------------------
(***************************************************************************)
(* safrs/jsonapi.py: the JSON:API request pipeline of SAFRS.                *)
(*                                                                         *)
(* Nine specifications share this module:                                  *)
(*   SpecPaginate  paginate() applied to a query of n rows                 *)
(*   SpecGet       the collection GET: jsonapi_filter, jsonapi_sort,        *)
(*                 paginate, jsonapi_format_response                       *)
(*   SpecIncluded  get_included() on a relationship graph                  *)
(*   SpecRun       get_included() executed call by call                    *)
(*   Spec          the wrapped resource handlers acting on the store       *)
(*   SpecPatch     one wrapped resource PATCH                              *)
(*   SpecRel       the wrapped relationship handlers of one endpoint       *)
(*   SpecWrapper   the wrapper answering handlers that raise               *)
(*   SpecRace      two concurrent requests to one to-many relationship     *)
(* A variable a specification does not use keeps the value Unused.         *)
(***************************************************************************)
EXTENDS Integers, Sequences, FiniteSets, TLC

VARIABLES
    object_query,   \* paginate: the rows of the query it is given
    s_count,        \* paginate: the value SAFRSObject._s_count() returns
    request_args,   \* request.args: the query-string parameters
    paginated,      \* paginate: what the call produced
    db,             \* the committed rows of the resource class: id -> columns
    log_level,      \* safrs.LOGGER.getEffectiveLevel()
    db_commit,      \* SAFRSObject.db_commit: the constructor commits
    request,        \* the request served last: method, url id
    response,       \* the response it got
    events,         \* what the wrapped handlers did to the session, in order
    relationships,  \* get_included: the relationship values, as edges
    included_args,  \* get_included: its arguments data, limit, include
    included,       \* get_included: the set it returned
    direction,      \* SAFRSObject.relationship.direction of the endpoint
    stack           \* get_included: the frames of its calls in progress

vars == <<object_query, s_count, request_args, paginated,
          db, log_level, db_commit, request, response, events,
          relationships, included_args, included, direction, stack>>

Unused == [unused |-> TRUE]
None == "None"          \* an absent query parameter (request.args.get gives None)
NoCount == -1           \* _s_count() returned None
NoDirection == "none"   \* no relationship endpoint is served

(***************************************************************************)
(* Bounds of the model.                                                    *)
(***************************************************************************)
MaxCount == 6           \* rows of the query paginate is given
MaxArg == 7             \* largest integer written in page[offset], page[limit]
MaxInst == 2            \* instances of the resource class

\* get_config('UNLIMITED'): the configured default page[limit]
UNLIMITED == 50

(***************************************************************************)
(* Python helpers.                                                         *)
(***************************************************************************)
\* the integers a query-string value of the model can denote
Numerals == 0..MaxArg

\* int(s) succeeds: s is the decimal text of an integer
IsIntText(s) == \E n \in Numerals : ToString(n) = s

\* int(s) for such a text
int(s) == CHOOSE n \in Numerals : ToString(n) = s

Abs(n) == IF n < 0 THEN -n ELSE n

\* int(a / b): true division, then truncation toward zero
TruncDiv(a, b) ==
    LET q == Abs(a) \div Abs(b)
    IN  IF (a < 0) = (b < 0) THEN q ELSE -q

Min(a, b) == IF a <= b THEN a ELSE b

\* seq[lo:hi] of Python (0-based, hi exclusive), for 0 <= lo
Slice(seq, lo, hi) ==
    LET h == Min(hi, Len(seq))
    IN  IF lo >= h THEN <<>> ELSE SubSeq(seq, lo + 1, h)

\* an exception leaving a function: its class, message and status_code
\* attribute (NoStatus: the class has none)
NoStatus == 0
Raise(kind, message, status_code) ==
    [ok |-> FALSE,
     exc |-> [kind |-> kind, message |-> message, status_code |-> status_code]]

\* ValidationError(message): the status_code the class gives by default
ValidationStatus == 400

\* an exception of Python itself, e.g. TypeError
PyError(kind) == Raise(kind, kind, NoStatus)

\* the rows in order, an instance met again dropped
RECURSIVE unique_list(_)
unique_list(rows) ==
    IF rows = <<>> THEN <<>>
    ELSE LET init == unique_list(SubSeq(rows, 1, Len(rows) - 1))
             x == rows[Len(rows)]
         IN  IF \E i \in 1..Len(init) : init[i] = x THEN init
             ELSE Append(init, x)

\* a slip in line 233: every row of the query becomes an item
all_rows(rows) == rows

\* Query.all() on a query of one mapped class (line 233): the ORM returns
\* each identity once
all(rows) == unique_list(rows)

(***************************************************************************)
(* paginate (jsonapi.py 148-234).                                          *)
(*   fetch   the rows of object_query in the order the engine delivers     *)
(*   scount  SAFRSObject._s_count(), NoCount when it gives None           *)
(*   args    request.args: [offset, limit], None for an absent parameter   *)
(* A link is modelled by the pair get_link() formats into it.              *)
(***************************************************************************)
page_offset_of(args) ==
    IF args.offset # None /\ IsIntText(args.offset) THEN int(args.offset) ELSE 0

\* the limit is an integer after line 194 (absent: the configured default)
limit_is_int(args) == args.limit = None \/ IsIntText(args.limit)

limit_of(args) == IF args.limit = None THEN UNLIMITED ELSE int(args.limit)

\* a slip in line 213: the self pair is not clamped to the last page
self_args_unclamped(page_base, last_args, limit) == <<page_base, limit>>

self_args_of(page_base, last_args, limit) ==
    <<IF page_base <= last_args[1] THEN page_base ELSE last_args[1], limit>>

\* lines 223-230: the links that are deleted
deleted_links(first_args, last_args, self_args, next_args, prev_args) ==
    (IF last_args = self_args THEN {"last"} ELSE {})
    \cup (IF first_args = self_args THEN {"first"} ELSE {})
    \cup (IF next_args = last_args THEN {"next"} ELSE {})
    \cup (IF prev_args = first_args THEN {"prev"} ELSE {})

paginate(fetch, scount, args) ==
    LET page_offset == page_offset_of(args)
    IN  IF ~limit_is_int(args) THEN PyError("TypeError")         \* line 197, str
        ELSE IF limit_of(args) = 0 THEN PyError("ZeroDivisionError") \* 197
        ELSE
        LET limit == limit_of(args)
            page_base == TruncDiv(page_offset, limit) * limit
            count == IF scount = NoCount THEN Len(fetch) ELSE scount
            first_args == <<0, limit>>
            last_args == <<TruncDiv(count, limit) * limit, limit>>
            self_args == self_args_of(page_base, last_args, limit)
            next_args == IF page_offset + limit <= last_args[1]
                         THEN <<page_offset + limit, limit>> ELSE last_args
            prev_args == IF page_offset > limit
                         THEN <<page_offset - limit, limit>> ELSE first_args
            linked == [first |-> first_args, self |-> <<page_offset, limit>>,
                       last |-> last_args, prev |-> prev_args, next |-> next_args]
            kept == {"first", "self", "last", "prev", "next"}
                    \ deleted_links(first_args, last_args, self_args,
                                    next_args, prev_args)
        IN  [ok |-> TRUE,
             links |-> [k \in kept |-> linked[k]],
             instances |-> all(Slice(fetch, page_offset, page_offset + limit)),
             count |-> count]

(***************************************************************************)
(* The resource class and its queries.  A row is an instance id; a Query   *)
(* is the rows it selects, in the order the engine delivers them before    *)
(* any ORDER BY, and the ORDER BY list built so far.                        *)
(***************************************************************************)
Columns == {"a", "b"}
Vals == {1, 2}          \* column values: equal or different, smaller or larger
Rows == [a : Vals, b : Vals]
Ids == 1..MaxInst

RECURSIVE Ascending(_)
Ascending(S) ==
    IF S = {} THEN <<>>
    ELSE LET m == CHOOSE x \in S : \A y \in S : x <= y
         IN  <<m>> \o Ascending(S \ {m})

Range(seq) == {seq[i] : i \in 1..Len(seq)}

RECURSIVE Concat(_)
Concat(seqs) == IF seqs = <<>> THEN <<>> ELSE Head(seqs) \o Concat(Tail(seqs))

\* safrs_object.query
query(table) == [rows |-> Ascending(DOMAIN table), order |-> <<>>]

\* a slip in line 249: val is not split, only its first item is compared
filter_first_item(table, f) ==
    LET keep(r) == ToString(table[r][f[1]]) = f[2][1]
    IN  [rows |-> SelectSeq(Ascending(DOMAIN table), keep), order |-> <<>>]

\* safrs_object.query.filter(column.in_(val.split(','))), line 249: f is the
\* pair <<col_name, the items of val>>; the engine compares a column value
\* with the text of a filter value
filter_in(table, f) ==
    LET keep(r) == ToString(table[r][f[1]]) \in Range(f[2])
    IN  [rows |-> SelectSeq(query(table).rows, keep), order |-> <<>>]

\* q.union_all(*qs): the rows of q, then the rows of each of qs
union_all(q, qs) ==
    [rows |-> q.rows \o Concat([i \in 1..Len(qs) |-> qs[i].rows]),
     order |-> <<>>]

\* a slip in line 252: the queries are intersected
intersect_all(q, qs) ==
    [rows |-> SelectSeq(q.rows,
                 LAMBDA r : \A i \in 1..Len(qs) : r \in Range(qs[i].rows)),
     order |-> <<>>]

\* line 252: filtered[0].union_all(*filtered)
combine_filtered(q, qs) == union_all(q, qs)

\* jsonapi_filter (lines 237-255); getattr of a name that is no attribute
\* raises AttributeError
jsonapi_filter(table, args) ==
    IF \E i \in 1..Len(args.filter) : args.filter[i][1] \notin Columns
    THEN PyError("AttributeError")
    ELSE LET filtered == [i \in 1..Len(args.filter) |->
                              filter_in(table, args.filter[i])]
         IN  [ok |-> TRUE,
              q |-> IF filtered # <<>>
                    THEN combine_filtered(filtered[1], filtered)
                    ELSE query(table)]

\* Query.order_by(attr): appends a criterion; order_by(None) cancels the
\* criteria given so far
\* attr is <<column, descending>>, or NoAttr for None
NoAttr == <<>>
order_by(q, attr) ==
    IF attr = NoAttr THEN [q EXCEPT !.order = <<>>]
    ELSE [q EXCEPT !.order = Append(@, attr)]

\* getattr(safrs_object, name, None); a name is a sequence of characters
getattr(name) ==
    IF Len(name) = 1 /\ name[1] \in Columns THEN name[1] ELSE None

\* a slip in line 267: a descending key is ordered ascending
sort_key_asc(sort_column) ==
    IF sort_column # <<>> /\ Head(sort_column) = "-"
    THEN [desc |-> FALSE, name |-> Tail(sort_column)]
    ELSE [desc |-> FALSE, name |-> sort_column]

\* lines 266-270: '-' in front means descending, the rest is the name
sort_key(sort_column) ==
    IF sort_column # <<>> /\ Head(sort_column) = "-"
    THEN [desc |-> TRUE, name |-> Tail(sort_column)]
    ELSE [desc |-> FALSE, name |-> sort_column]

\* jsonapi_sort (lines 258-273), the loop from the i-th item on
RECURSIVE sort_from(_, _, _)
sort_from(q, sort_columns, i) ==
    IF i > Len(sort_columns) THEN [ok |-> TRUE, q |-> q]
    ELSE LET k == sort_key(sort_columns[i])
             attr == getattr(k.name)
         IN  IF k.desc /\ attr = None
             THEN PyError("AttributeError")        \* None.desc(), line 267
             ELSE sort_from(order_by(q, IF attr = None THEN NoAttr
                                        ELSE <<attr, k.desc>>),
                            sort_columns, i + 1)

jsonapi_sort(q, args) ==
    IF args.has_sort THEN sort_from(q, args.sort, 1) ELSE [ok |-> TRUE, q |-> q]

\* row r1 comes strictly before row r2 under the ORDER BY list
Before(table, order, r1, r2) ==
    \E i \in 1..Len(order) :
        /\ \A j \in 1..(i - 1) : table[r1][order[j][1]] = table[r2][order[j][1]]
        /\ IF order[i][2]
           THEN table[r1][order[i][1]] > table[r2][order[i][1]]
           ELSE table[r1][order[i][1]] < table[r2][order[i][1]]

\* the rows of a query as the engine delivers them: ordered by the ORDER BY
\* list, rows it does not tell apart left in the order they had
RECURSIVE fetch(_, _)
fetch(table, q) ==
    IF q.rows = <<>> THEN <<>>
    ELSE LET n == Len(q.rows)
             init == fetch(table, [q EXCEPT !.rows = SubSeq(q.rows, 1, n - 1)])
             x == q.rows[n]
             k == Cardinality({i \in 1..Len(init) :
                                  ~Before(table, q.order, x, init[i])})
         IN  SubSeq(init, 1, k) \o <<x>> \o SubSeq(init, k + 1, Len(init))

(***************************************************************************)
(* The session.  A handler works on ctx: sess, the rows as the session      *)
(* sees them; com, the committed rows; events, what was done to the         *)
(* session so far.  It returns a result or raises, and hands ctx on.        *)
(***************************************************************************)
Returned(ctx, result) == [ok |-> TRUE, result |-> result, ctx |-> ctx]
Raised(ctx, failed) == [ok |-> FALSE, exc |-> failed.exc, ctx |-> ctx]

NoId == 0               \* no id in the url (kwargs.get gives None)
NotFoundStatus == 404
ServerErrorStatus == 500
OkStatus == 200
CreatedStatus == 201

\* SAFRSObject.get_instance(id): the instance, or NotFoundError
get_instance(table, id) ==
    IF id \in DOMAIN table THEN [ok |-> TRUE, instance |-> id]
    ELSE Raise("NotFoundError", "Invalid ID", NotFoundStatus)

\* jsonapi_format_response (lines 350-382).  The resource class of this
\* model declares no relationship, so get_included adds nothing and the
\* included member is left out (line 379).
jsonapi_format_response(data, meta, links, count, args) ==
    IF ~limit_is_int(args)
    THEN Raise("ValidationError", "page[limit] error", ValidationStatus)
    ELSE [ok |-> TRUE,
          result |-> [data |-> data,
                      meta |-> [limit |-> limit_of(args), count |-> count] @@ meta,
                      jsonapi |-> "1.0",
                      links |-> links]]

\* SAFRSRestAPI.get (lines 440-491), unwrapped
get(ctx, scount, args, id) ==
    IF id # NoId
    THEN LET found == get_instance(ctx.sess, id)
         IN  IF ~found.ok THEN Raised(ctx, found)
             ELSE LET r == jsonapi_format_response(
                               found.instance,
                               [instance_meta |-> ctx.sess[id]],
                               [self |-> <<id>>], 1, args)
                  IN  IF ~r.ok THEN Raised(ctx, r)
                      ELSE Returned(ctx, [status |-> OkStatus, body |-> r.result])
    ELSE LET f == jsonapi_filter(ctx.sess, args)
             s == IF f.ok THEN jsonapi_sort(f.q, args) ELSE f
             p == IF s.ok THEN paginate(fetch(ctx.sess, s.q), scount, args) ELSE s
             r == IF p.ok
                  THEN jsonapi_format_response(p.instances, <<>>, p.links,
                                               p.count, args)
                  ELSE p
         IN  IF ~r.ok THEN Raised(ctx, r)
             ELSE Returned(ctx, [status |-> OkStatus, body |-> r.result])

(***************************************************************************)
(* http_method_decorator.method_wrapper (lines 61-87): out is what the      *)
(* handler did, commit_ok whether session.commit() of line 65 succeeds.     *)
(* abort() raises the HTTP exception that carries the error document.       *)
(***************************************************************************)
Classified == {"ValidationError", "GenericError", "NotFoundError"}

rollback(ctx) == [ctx EXCEPT !.sess = ctx.com, !.events = Append(@, "rollback")]

\* a slip in line 85: the session is not rolled back
no_rollback(ctx) == ctx

\* line 65
commit(ctx) == [ctx EXCEPT !.com = ctx.sess, !.events = Append(@, "commit")]

\* line 85
wrapper_rollback(ctx) == rollback(ctx)

\* a slip in lines 79-82: the text of the exception is always surfaced
raw_message(level, text) == text

\* lines 79-82: the message for an exception of no known class
unclassified_message(level, text) ==
    IF level # "DEBUG" THEN "Unknown Error" ELSE text

method_wrapper(out, commit_ok, level) ==
    IF out.ok /\ commit_ok
    THEN Returned(commit(out.ctx), out.result)
    ELSE LET exc == IF out.ok
                    THEN [kind |-> "SQLAlchemyError", message |-> "commit failed",
                          status_code |-> NoStatus]
                    ELSE out.exc
             ctx == IF out.ok
                    THEN [out.ctx EXCEPT !.events = Append(@, "commit_failed")]
                    ELSE out.ctx
             status_code ==
                 IF exc.kind \in Classified THEN exc.status_code
                 ELSE IF exc.kind = "NotFound" THEN NotFoundStatus
                 ELSE IF exc.status_code = NoStatus THEN ServerErrorStatus
                 ELSE exc.status_code
             message ==
                 IF exc.kind \in Classified THEN exc.message
                 ELSE IF exc.kind = "NotFound" THEN "Not Found"
                 ELSE unclassified_message(level, exc.message)
             rolled == wrapper_rollback(ctx)
         IN  [ok |-> FALSE,
              exc |-> [kind |-> IF status_code = NotFoundStatus
                                THEN "NotFound" ELSE "HTTPException",
                       message |-> "HTTPException",
                       status_code |-> NoStatus,
                       code |-> status_code,
                       data |-> [errors |-> <<[detail |-> message]>>]],
              ctx |-> [rolled EXCEPT !.events = Append(@, "abort")]]

\* what the client receives from the outermost wrapper
respond(out) ==
    IF out.ok THEN out.result
    ELSE [status |-> out.exc.code, body |-> out.exc.data]

\* the session refused a commit of the request
CommitFailed(evs) == \E i \in DOMAIN evs : evs[i] = "commit_failed"

\* the response r is an error response
IsError(r) == r # Unused /\ "errors" \in DOMAIN r.body

NewCtx(table) == [sess |-> table, com |-> table, events |-> <<>>]

(***************************************************************************)
(* The handlers of SAFRSRestAPI that write.  api_decorator (line 144) has   *)
(* replaced each method of the class by its wrapped form, so the self.get   *)
(* and self.patch a handler calls are wrapped calls.  commits tells, for    *)
(* each session.commit() the request can reach, whether it succeeds.        *)
(* A request body is [kind |-> "list"] (not a dict) or a dict with its data *)
(* member: absent (kind "None"), a list, or a dict of type, id, attributes. *)
(***************************************************************************)
GenericStatus == 500    \* GenericError.status_code
ForbiddenStatus == 403  \* the status given to ValidationError in lines 1131-1138

\* id_type.validate_id
validate_id(id) == id

\* instance._s_patch(**attributes)
s_patch(table, id, attributes) == [table EXCEPT ![id] = attributes @@ @]

\* session.delete(instance)
session_delete(table, id) == [i \in DOMAIN table \ {id} |-> table[i]]

\* SAFRSObject(**attributes), session.add(instance): the row gets the next
\* free id
new_id(table) == CHOOSE i \in Ids \ DOMAIN table :
                     \A j \in Ids \ DOMAIN table : i <= j
session_add(table, attributes) ==
    [i \in DOMAIN table \cup {new_id(table)} |->
        IF i \in DOMAIN table THEN table[i] ELSE attributes]

\* self.get(**obj_args) called in a handler
wrapped_get(ctx, scount, args, id, commit_ok, level) ==
    method_wrapper(get(ctx, scount, args, id), commit_ok, level)

\* make_response(obj_data, 201) of lines 543 and 654: obj_data is what the
\* wrapped get returned, or the exception it raised
make_response(obj_data) ==
    IF ~obj_data.ok THEN Raised(obj_data.ctx, obj_data)
    ELSE Returned(obj_data.ctx,
                  [status |-> CreatedStatus, body |-> obj_data.result.body])

\* a slip in lines 525-528: the id of the body is not looked at
id_accepted(id, body_id) == FALSE

\* lines 525-528: the body has no id, or not the id of the url
id_mismatch(id, body_id) ==
    body_id = NoId \/ validate_id(id) # validate_id(body_id)

\* line 545: the Location header is the url of the instance
with_location(response_, id) ==
    IF ~response_.ok THEN response_
    ELSE Returned(response_.ctx,
                  response_.result @@ [headers |-> [Location |-> <<id>>]])

\* SAFRSRestAPI.patch (lines 493-546), unwrapped
patch(ctx, scount, args, id, body, commits, level) ==
    IF id = NoId
    THEN Raised(ctx, Raise("ValidationError", "Invalid ID", ValidationStatus))
    ELSE IF body.kind # "dict"
    THEN Raised(ctx, Raise("ValidationError", "Invalid Object Type",
                           ValidationStatus))
    ELSE IF body.data.kind # "dict"
    THEN Raised(ctx, Raise("ValidationError", "Invalid Data Object",
                           ValidationStatus))
    ELSE IF id_mismatch(id, body.data.id)
    THEN Raised(ctx, Raise("ValidationError", "Invalid ID", ValidationStatus))
    ELSE
    LET found == get_instance(ctx.sess, id)
    IN  IF ~found.ok THEN Raised(ctx, found)
        ELSE
        LET patched == [ctx EXCEPT
                           !.sess = s_patch(@, id, body.data.attributes)]
        IN  with_location(make_response(wrapped_get(patched, scount, args, id,
                                                    commits.get, level)),
                          id)

\* lines 614-617: what the wrapped patch returned, or GenericError
patched_or_failed(inner) ==
    IF inner.ok THEN Returned(inner.ctx, inner.result)
    ELSE Raised(inner.ctx, Raise("GenericError", "POST failed", GenericStatus))

\* SAFRSRestAPI.post (lines 560-658), unwrapped; committed is the db_commit
\* of the instance: its constructor has added and committed it
post(ctx, scount, args, id, body, committed, commits, level) ==
    IF body.kind # "dict"
    THEN Raised(ctx, Raise("ValidationError", "Invalid Object Type",
                           ValidationStatus))
    ELSE IF id # NoId
    THEN patched_or_failed(method_wrapper(
                               patch(ctx, scount, args, id, body, commits,
                                     level),
                               commits.patch, level))
    ELSE IF body.data.kind = "None"
    THEN Raised(ctx, Raise("ValidationError", "Request contains no data",
                           ValidationStatus))
    ELSE IF body.data.kind # "dict"
    THEN Raised(ctx, Raise("ValidationError", "data is not a dict object",
                           ValidationStatus))
    ELSE IF body.data.type = None
    THEN Raised(ctx, Raise("ValidationError", "Invalid type member",
                           ValidationStatus))
    ELSE
    LET instance == new_id(ctx.sess)
        added == [ctx EXCEPT !.sess = session_add(@, body.data.attributes)]
    IN  IF ~committed /\ ~commits.post                          \* 644-648
        THEN Raised([added EXCEPT !.events = Append(@, "commit_failed")],
                    Raise("GenericError", "commit failed", GenericStatus))
        ELSE
        with_location(make_response(wrapped_get(commit(added), scount, args,
                                                instance, commits.get,
                                                level)),
                      instance)                            \* 643, 653-656

\* SAFRSRestAPI.delete (lines 661-707), unwrapped
delete(ctx, id) ==
    IF id # NoId
    THEN LET found == get_instance(ctx.sess, id)
         IN  IF ~found.ok THEN Raised(ctx, found)
             ELSE Returned([ctx EXCEPT !.sess = session_delete(@, id)],
                           [status |-> OkStatus, body |-> <<>>])
    ELSE Raised(ctx, Raise("NotFoundError", None, NotFoundStatus))

(***************************************************************************)
(* SpecPaginate: paginate applied to a query of n rows.                    *)
(***************************************************************************)
ArgTexts == {ToString(n) : n \in Numerals} \cup {"abc"}

NoArgs == [offset |-> None, limit |-> None, sort |-> <<>>, filter |-> <<>>,
           has_sort |-> FALSE]

PageArgs ==
    {[NoArgs EXCEPT !.offset = o, !.limit = l] :
        o \in ArgTexts \cup {None}, l \in ArgTexts \cup {None}}

NoRequest == [method |-> "none"]

PaginateInit ==
    /\ \E n \in 0..MaxCount :
          /\ object_query = [i \in 1..n |-> i]
          /\ s_count \in {NoCount, n}
    /\ request_args \in PageArgs
    /\ paginated = Unused
    /\ db = <<>>
    /\ log_level = "INFO"
    /\ db_commit = FALSE
    /\ request = NoRequest
    /\ response = Unused
    /\ events = <<>>
    /\ relationships = {}
    /\ included_args = Unused
    /\ included = Unused
    /\ stack = <<>>
    /\ direction = NoDirection

Paginate ==
    /\ paginated = Unused
    /\ paginated' = paginate(object_query, s_count, request_args)
    /\ UNCHANGED <<object_query, s_count, request_args,
                   db, log_level, db_commit, request, response, events,
                   relationships, included_args, included, direction, stack>>

PaginateNext == Paginate

SpecPaginate == PaginateInit /\ [][PaginateNext]_vars

(***************************************************************************)
(* SpecGet: one wrapped collection GET on a table of the resource class.   *)
(***************************************************************************)
Tables == UNION {[1..n -> Rows] : n \in 0..MaxInst}

\* the value of one filter[col] parameter: the items between its commas
ValTexts == {ToString(v) : v \in Vals}
FilterVals == {<<t>> : t \in ValTexts} \cup {<<"1", "2">>, <<"2", "3">>}

\* the filter[..] parameters of a request, in the order request.args gives
\* them: each column at most once
Filters ==
    {<<>>}
    \cup {<<<<c, v>>>> : c \in Columns, v \in FilterVals}
    \cup {<<<<p[1], v>>, <<p[2], w>>>> :
              p \in {<<"a", "b">>, <<"b", "a">>},
              v \in FilterVals, w \in FilterVals}

\* the items of a sort parameter: a column name, known or not, descending
\* with '-' in front
SortItems == {<<c>> : c \in Columns \cup {"z"}}
             \cup {<<"-", c>> : c \in Columns \cup {"z"}}
Sorts == {<<i>> : i \in SortItems}
         \cup {<<i, j>> \in SortItems \X SortItems : i[Len(i)] # j[Len(j)]}

\* a request that filters, with and without a page
FilterRequests ==
    {[NoArgs EXCEPT !.filter = f] : f \in Filters}
    \cup {[NoArgs EXCEPT !.filter = f, !.offset = o, !.limit = l] :
             f \in {<<>>, <<<<"a", <<"1">>>>>>},
             o \in {None, "0", "1"}, l \in {"0", "1", "2"}}

\* a request that sorts
SortRequests ==
    {[NoArgs EXCEPT !.has_sort = TRUE, !.sort = srt, !.filter = f, !.limit = l] :
        srt \in Sorts, f \in {<<>>, <<<<"a", <<"1">>>>>>}, l \in {None, "1"}}

GetInit ==
    /\ db \in Tables
    /\ s_count \in {NoCount, Len(db)}
    /\ request_args \in FilterRequests \cup SortRequests
    /\ request = [method |-> "GET", id |-> NoId]
    /\ log_level = "INFO"
    /\ db_commit = FALSE
    /\ response = Unused
    /\ events = <<>>
    /\ object_query = <<>>
    /\ paginated = Unused
    /\ relationships = {}
    /\ included_args = Unused
    /\ included = Unused
    /\ stack = <<>>
    /\ direction = NoDirection

\* the api calls the wrapped get of the resource class
GetCollection ==
    /\ response = Unused
    /\ \E commit_ok \in BOOLEAN :
          LET out == method_wrapper(get(NewCtx(db), s_count, request_args, NoId),
                                    commit_ok, log_level)
          IN  /\ response' = respond(out)
              /\ events' = out.ctx.events
              /\ db' = out.ctx.com
    /\ UNCHANGED <<object_query, s_count, request_args, paginated,
                   log_level, db_commit, request,
                   relationships, included_args, included, direction, stack>>

GetNext == GetCollection

SpecGet == GetInit /\ [][GetNext]_vars

(***************************************************************************)
(* get_included (lines 275-347).  A text is the sequence of its symbols: a  *)
(* relationship name, the symbol "+all", or one of the separators "," and   *)
(* ".".  An instance is an id of Related; a relationship value is read      *)
(* from the edges <<instance, key, target>> of relationships.               *)
(***************************************************************************)
INCLUDE_ALL == "+all"

\* str.split(sep): the pieces between the separators
RECURSIVE split(_, _)
split(s, sep) ==
    IF \A i \in DOMAIN s : s[i] # sep THEN <<s>>
    ELSE LET i == CHOOSE k \in DOMAIN s :
                      s[k] = sep /\ \A j \in 1..(k - 1) : s[j] # sep
         IN  <<SubSeq(s, 1, i - 1)>> \o split(SubSeq(s, i + 1, Len(s)), sep)

\* sep.join(parts)
RECURSIVE join(_, _)
join(parts, sep) ==
    IF parts = <<>> THEN <<>>
    ELSE IF Len(parts) = 1 THEN parts[1]
    ELSE parts[1] \o <<sep>> \o join(Tail(parts), sep)

\* the instances of the related classes
Related == {1, 2, 3}
NoRelated == 0          \* a to-one relationship that is not set (None)

\* instance._s_relationships: the keys, and the type getattr gives for each
s_relationships == <<"one", "many", "dyn">>
Shape == [one |-> "SAFRSBase", many |-> "InstrumentedList",
          dyn |-> "AppenderQuery"]

\* getattr(instance, relationship): the related instance or NoRelated for
\* the to-one key, the members in order for a collection
related(instance, key) ==
    LET targets == {e[3] : e \in {x \in relationships :
                                     x[1] = instance /\ x[2] = key}}
    IN  IF Shape[key] = "SAFRSBase"
        THEN IF targets = {} THEN NoRelated ELSE CHOOSE t \in targets : TRUE
        ELSE Ascending(targets)

\* what get_included is given as data
Instance(n) == [kind |-> "SAFRSBase", obj |-> n]
Collection(S) == [kind |-> "set", members |-> S]

\* a slip in line 308: the keys are not added
all_keys_dropped(includes) == <<>>

\* line 308: the keys the "+all" sentinel adds to includes
all_keys(includes) ==
    IF \E i \in DOMAIN includes : includes[i] = <<INCLUDE_ALL>>
    THEN [i \in DOMAIN s_relationships |-> <<s_relationships[i]>>]
    ELSE <<>>

\* lines 315-337: the relationship value added to result; continued tells
\* that a continue statement ended the iteration of the loop
add_related(instance, key, limit, result) ==
    LET value == related(instance, key)
    IN  IF Shape[key] = "SAFRSBase"
        THEN IF value # NoRelated /\ value \notin result
             THEN [result |-> result \cup {value}, continued |-> TRUE] \* 321
             ELSE [result |-> result, continued |-> TRUE]              \* 329
        ELSE IF Shape[key] = "InstrumentedList"
        THEN [result |-> result \cup Range(Slice(value, 0, limit)),
              continued |-> TRUE]                                      \* 324
        ELSE [result |-> result \cup Range(Slice(value, 0, limit)),
              continued |-> FALSE]                                     \* 333

\* the orders in which the texts of S can be iterated
Orders(S) ==
    {p \in [1..Cardinality(S) -> S] :
        \A i \in DOMAIN p, j \in DOMAIN p : p[i] = p[j] => i = j}

\* for include in set(includes): the order a set of texts is iterated in,
\* the texts of pri first and in that order
iteration(S, pri) ==
    SelectSeq(pri, LAMBDA t : t \in S)
        \o (CHOOSE rest \in Orders(S \ Range(pri)) : TRUE)

RECURSIVE get_included(_, _, _, _)

\* lines 310-345: the loop over set(includes), todo being the texts still
\* to come and result the set built so far
RECURSIVE include_loop(_, _, _, _, _, _)
include_loop(instance, limit, includes, todo, result, pri) ==
    IF todo = <<>> THEN result
    ELSE
    LET include == Head(todo)
        parts == split(include, ".")
        relationship == parts[1]
        nested_rel == IF Len(parts) > 1 THEN join(Tail(parts), ".") ELSE <<>>
        declared == \E i \in DOMAIN s_relationships :
                        relationship = <<s_relationships[i]>>
        added == IF declared
                 THEN add_related(instance, relationship[1], limit, result)
                 ELSE [result |-> result, continued |-> FALSE]
        has_all == \E i \in DOMAIN includes : includes[i] = <<INCLUDE_ALL>>
        nested ==
            IF added.continued \/ added.result = {} THEN {}
            ELSE IF has_all                                          \* 339
            THEN get_included(Collection(added.result), limit, <<>>, pri)
            ELSE IF nested_rel # <<>>                                \* 343
            THEN get_included(Collection(added.result), limit, nested_rel, pri)
            ELSE {}
    IN  include_loop(instance, limit, includes, Tail(todo),
                     added.result \cup nested, pri)

\* get_included(data, limit, include); pri is the order in which this
\* process iterates a set of texts
get_included(data, limit, include, pri) ==
    IF include = <<>> THEN {}                                        \* 291
    ELSE IF data.kind \in {"list", "set"}                            \* 294
    THEN UNION {get_included(Instance(obj), limit, include, pri) :
                    obj \in data.members}
    ELSE IF data.kind # "SAFRSBase" THEN {}                          \* 300
    ELSE LET listed == split(include, ",")
             includes == listed \o all_keys(listed)
         IN  include_loop(data.obj, limit, includes,
                          iteration(Range(includes), pri), {}, pri)

(***************************************************************************)
(* SpecIncluded: get_included applied to root resources of a relationship   *)
(* graph.                                                                   *)
(***************************************************************************)
MaxLimit == 2           \* largest limit get_included is given

Edges == Related \X {"one", "many", "dyn"} \X Related

\* the graphs of at most three edges; a to-one key has at most one target
Graphs ==
    {g \in {{}} \cup {{e1, e2, e3} : e1 \in Edges, e2 \in Edges, e3 \in Edges} :
        \A e \in g, f \in g :
            (e[1] = f[1] /\ e[2] = f[2] /\ e[2] = "one") => e = f}

\* the include parameter of the request
Includes ==
    {<<>>, <<INCLUDE_ALL>>, <<"one">>, <<"many">>, <<"dyn">>, <<"zz">>,
     <<"one", ".", "many">>, <<"many", ".", "one">>, <<"dyn", ".", "one">>,
     <<"dyn", ".", "dyn">>, <<"many", ",", "dyn", ".", "one">>}

IncludedInit ==
    /\ relationships \in Graphs
    /\ included_args \in
          [data : {Instance(1), [kind |-> "list", members |-> {1, 2}]},
           limit : 1..MaxLimit,
           include : Includes]
          \cup [data : {[kind |-> "NoneType"]}, limit : {1},
                include : {<<"one">>}]
    /\ included = Unused
    /\ stack = <<>>
    /\ direction = NoDirection
    /\ object_query = <<>>
    /\ s_count = NoCount
    /\ request_args = NoArgs
    /\ paginated = Unused
    /\ db = <<>>
    /\ log_level = "INFO"
    /\ db_commit = FALSE
    /\ request = NoRequest
    /\ response = Unused
    /\ events = <<>>

\* jsonapi_format_response (line 366) resolves the included resources
GetIncluded ==
    /\ included = Unused
    /\ \E pri \in Orders(Range(split(included_args.include, ",")
                               \o all_keys(split(included_args.include, ",")))) :
          included' = [set |-> get_included(included_args.data,
                                            included_args.limit,
                                            included_args.include, pri)]
    /\ UNCHANGED <<object_query, s_count, request_args, paginated,
                   db, log_level, db_commit, request, response, events,
                   relationships, included_args, direction, stack>>

IncludedNext == GetIncluded

SpecIncluded == IncludedInit /\ [][IncludedNext]_vars

(***************************************************************************)
(* SpecRun: get_included executed call by call.  stack holds the frames of  *)
(* the calls in progress, the running one last.  A frame is at one of the   *)
(* places "objs" (the comprehension of line 295 over the collection data),  *)
(* "loop" (the for loop of line 310), "nested" (the comprehension of line   *)
(* 340 or 344, calls of its calls still to make) or "return".               *)
(***************************************************************************)
MaxDepth == 9           \* the recursion limit of the interpreter

\* a slip in lines 312-314: the include is passed on as it is
whole_include(include) == include

\* lines 312-314: the rest of the path after its first segment
nested_rel(include) ==
    IF Len(split(include, ".")) > 1
    THEN join(Tail(split(include, ".")), ".")
    ELSE <<>>

\* lines 289-310: the frame of the call get_included(data, limit, include)
new_frame(data, include, pri) ==
    LET listed == split(include, ",")
        frame == [data |-> data, include |-> include, pc |-> "return",
                  objs |-> <<>>, includes |-> <<>>, todo |-> <<>>,
                  result |-> {}, calls |-> 0, arg |-> <<>>, got |-> {}]
    IN  IF include = <<>> THEN frame                                 \* 291
        ELSE IF data.kind \in {"list", "set"}                        \* 294
        THEN [frame EXCEPT !.pc = "objs", !.objs = Ascending(data.members)]
        ELSE IF data.kind # "SAFRSBase" THEN frame                   \* 300
        ELSE [frame EXCEPT !.pc = "loop",
                           !.includes = listed \o all_keys(listed),
                           !.todo = iteration(Range(listed \o all_keys(listed)),
                                              pri)]

\* lines 310-345: one iteration of the loop, up to the nested calls
iterate(frame, limit) ==
    LET include == Head(frame.todo)
        relationship == split(include, ".")[1]
        declared == \E i \in DOMAIN s_relationships :
                        relationship = <<s_relationships[i]>>
        added == IF declared
                 THEN add_related(frame.data.obj, relationship[1], limit,
                                  frame.result)
                 ELSE [result |-> frame.result, continued |-> FALSE]
        has_all == \E i \in DOMAIN frame.includes :
                       frame.includes[i] = <<INCLUDE_ALL>>
    IN  IF added.continued \/ (~has_all /\ nested_rel(include) = <<>>)
        THEN [frame EXCEPT !.result = added.result, !.todo = Tail(@)]
        ELSE [frame EXCEPT !.result = added.result, !.pc = "nested",
                           !.calls = Cardinality(added.result),
                           !.arg = IF has_all THEN <<>>              \* 340
                                   ELSE nested_rel(include),         \* 344
                           !.got = {}]

\* the frame has a call to make
calling(frame) ==
    \/ frame.pc = "objs" /\ frame.objs # <<>>
    \/ frame.pc = "nested" /\ frame.calls > 0

\* the call is over: return result
returning(frame) ==
    \/ frame.pc = "return"
    \/ frame.pc = "objs" /\ frame.objs = <<>>
    \/ frame.pc = "loop" /\ frame.todo = <<>>

\* the frame the running frame calls, and the running frame after the call
callee(frame, pri) ==
    IF frame.pc = "objs"
    THEN new_frame(Instance(Head(frame.objs)), frame.include, pri)   \* 295
    ELSE new_frame(Collection(frame.result), frame.arg, pri)    \* 340, 344

caller(frame) ==
    IF frame.pc = "objs" THEN [frame EXCEPT !.objs = Tail(@)]
    ELSE [frame EXCEPT !.calls = @ - 1]

\* lines 296, 341, 345: result = result.union(...) of what a call returned
receive(frame, returned) ==
    IF frame.pc = "objs" THEN [frame EXCEPT !.result = @ \cup returned]
    ELSE [frame EXCEPT !.got = @ \cup returned]

Top == stack[Len(stack)]
Below == SubSeq(stack, 1, Len(stack) - 1)

\* graphs with cycles and back-references over two instances: any "dyn"
\* members, and the "one" value of the first instance
RunEdges == ({1, 2} \X {"dyn"} \X {1, 2}) \cup {<<1, "one", 2>>}
RunGraphs ==
    {g \in SUBSET RunEdges :
        \A e \in g, f \in g :
            (e[1] = f[1] /\ e[2] = f[2] /\ e[2] = "one") => e = f}

RunIncludes ==
    {<<INCLUDE_ALL>>, <<"dyn">>, <<"dyn", ".", "dyn">>,
     <<"dyn", ".", "dyn", ".", "dyn">>, <<"zz", ".", "dyn">>,
     <<"dyn", ".", "one", ",", "one">>}

RunArgs ==
    UNION {[data : {Instance(1), [kind |-> "list", members |-> {1, 2}]},
            limit : {1, MaxLimit},
            include : {i},
            pri : Orders(Range(split(i, ",") \o all_keys(split(i, ","))))] :
               i \in RunIncludes}

RunInit ==
    /\ relationships \in RunGraphs
    /\ included_args \in RunArgs
    /\ stack = <<new_frame(included_args.data, included_args.include,
                           included_args.pri)>>
    /\ included = Unused
    /\ direction = NoDirection
    /\ object_query = <<>>
    /\ s_count = NoCount
    /\ request_args = NoArgs
    /\ paginated = Unused
    /\ db = <<>>
    /\ log_level = "INFO"
    /\ db_commit = FALSE
    /\ request = NoRequest
    /\ response = Unused
    /\ events = <<>>

\* lines 295, 340, 344: the running call calls get_included
RunCall ==
    /\ stack # <<>>
    /\ calling(Top)
    /\ Len(stack) < MaxDepth
    /\ stack' = Below \o <<caller(Top), callee(Top, included_args.pri)>>
    /\ UNCHANGED <<object_query, s_count, request_args, paginated,
                   db, log_level, db_commit, request, response, events,
                   relationships, included_args, included, direction>>

\* lines 310-337: the loop goes on to the next include; lines 341, 345:
\* the results of the nested calls are added
RunLoop ==
    /\ stack # <<>>
    /\ \/ /\ Top.pc = "loop" /\ Top.todo # <<>>
          /\ stack' = Below \o <<iterate(Top, included_args.limit)>>
       \/ /\ Top.pc = "nested" /\ Top.calls = 0
          /\ stack' = Below \o <<[Top EXCEPT !.pc = "loop",
                                             !.result = @ \cup Top.got,
                                             !.todo = Tail(@)]>>
    /\ UNCHANGED <<object_query, s_count, request_args, paginated,
                   db, log_level, db_commit, request, response, events,
                   relationships, included_args, included, direction>>

\* lines 292, 297, 301, 347: the running call returns its result
RunReturn ==
    /\ stack # <<>>
    /\ returning(Top)
    /\ IF Len(stack) = 1
       THEN stack' = <<>> /\ included' = [set |-> Top.result]
       ELSE /\ stack' = SubSeq(stack, 1, Len(stack) - 2)
                           \o <<receive(stack[Len(stack) - 1], Top.result)>>
            /\ UNCHANGED included
    /\ UNCHANGED <<object_query, s_count, request_args, paginated,
                   db, log_level, db_commit, request, response, events,
                   relationships, included_args, direction>>

RunNext == RunCall \/ RunLoop \/ RunReturn

\* the interpreter goes on running the call
SpecRun == RunInit /\ [][RunNext]_vars /\ WF_vars(RunNext)

(***************************************************************************)
(* Spec: a client sends requests to the resource endpoints, one after the   *)
(* other; each is served by the wrapped handler of its method.              *)
(***************************************************************************)
\* the attributes a client sends
Attributes == {[a |-> 1, b |-> 1], [a |-> 2, b |-> 1]}

\* the data member of the body of a request to the url of id: absent, a
\* list, a dict without type, or a dict whose id is absent, that of the url
\* or another one
DataMembers(id) ==
    {[kind |-> "None"], [kind |-> "list"],
     [kind |-> "dict", type |-> None, id |-> NoId,
      attributes |-> [a |-> 1, b |-> 1]]}
    \cup {[kind |-> "dict", type |-> "Thing", id |-> i, attributes |-> a] :
             i \in {NoId, id, (id % MaxInst) + 1}, a \in Attributes}

Bodies(id) == {[kind |-> "list"]}
              \cup {[kind |-> "dict", data |-> d] : d \in DataMembers(id)}

\* the query string: page[limit] absent or not a number
RequestArgs == {[NoArgs EXCEPT !.limit = l] : l \in {None, "abc"}}

\* which of the commits a request can reach succeed: post the one of line
\* 643, get and patch the ones of the wrapped calls a handler makes, wrapper
\* the one of the outermost wrapper.  A failed commit ends the request, so
\* at most one fails.
Commits(reached) ==
    {c \in [reached -> BOOLEAN] :
        \A k \in reached, l \in reached : (~c[k] /\ ~c[l]) => k = l}

Init ==
    /\ db = <<>>
    /\ log_level \in {"DEBUG", "INFO"}
    /\ db_commit \in BOOLEAN
    /\ request = NoRequest
    /\ request_args = NoArgs
    /\ response = Unused
    /\ events = <<>>
    /\ s_count = NoCount
    /\ object_query = <<>>
    /\ paginated = Unused
    /\ relationships = {}
    /\ included_args = Unused
    /\ included = Unused
    /\ stack = <<>>
    /\ direction = NoDirection

\* the outermost wrapper has answered the request req with out
Served(req, args, out) ==
    /\ request' = req
    /\ request_args' = args
    /\ response' = respond(out)
    /\ events' = out.ctx.events
    /\ db' = out.ctx.com

Get ==
    \E id \in Ids \cup {NoId}, args \in RequestArgs,
       commits \in Commits({"wrapper"}) :
        /\ Served([method |-> "GET", id |-> id], args,
                  method_wrapper(get(NewCtx(db), s_count, args, id),
                                 commits.wrapper, log_level))
        /\ UNCHANGED <<object_query, s_count, paginated, log_level, db_commit,
                       relationships, included_args, included, direction,
                       stack>>

Post ==
    \E id \in Ids \cup {NoId}, args \in RequestArgs,
       commits \in Commits({"post", "get", "patch", "wrapper"}) :
      \E body \in Bodies(id) :
        /\ (id = NoId /\ body.kind = "dict" /\ body.data.kind = "dict")
               => Ids \ DOMAIN db # {}
        /\ Served([method |-> "POST", id |-> id], args,
                  method_wrapper(post(NewCtx(db), s_count, args, id, body,
                                      db_commit, commits, log_level),
                                 commits.wrapper, log_level))
        /\ UNCHANGED <<object_query, s_count, paginated, log_level, db_commit,
                       relationships, included_args, included, direction,
                       stack>>

Patch ==
    \E id \in Ids \cup {NoId}, args \in RequestArgs,
       commits \in Commits({"get", "wrapper"}) :
      \E body \in Bodies(id) :
        /\ Served([method |-> "PATCH", id |-> id], args,
                  method_wrapper(patch(NewCtx(db), s_count, args, id, body,
                                       commits, log_level),
                                 commits.wrapper, log_level))
        /\ UNCHANGED <<object_query, s_count, paginated, log_level, db_commit,
                       relationships, included_args, included, direction,
                       stack>>

Delete ==
    \E id \in Ids \cup {NoId}, commits \in Commits({"wrapper"}) :
        /\ Served([method |-> "DELETE", id |-> id], NoArgs,
                  method_wrapper(delete(NewCtx(db), id), commits.wrapper,
                                 log_level))
        /\ UNCHANGED <<object_query, s_count, paginated, log_level, db_commit,
                       relationships, included_args, included, direction,
                       stack>>

Next == Get \/ Post \/ Patch \/ Delete

Spec == Init /\ [][Next]_vars

(***************************************************************************)
(* SpecWrapper: two requests whose handlers raise.  request holds the      *)
(* exception of each, response what the wrapper made of it.                *)
(***************************************************************************)
OwnStatus == 418        \* a status_code an exception declares itself

\* exceptions of no known class, with and without a status_code of their
\* own, and a ValidationError with either of its statuses
Exceptions ==
    [kind : {"TypeError", "KeyError"}, message : {"m1", "m2"},
     status_code : {NoStatus, OwnStatus}]
    \cup [kind : {"ValidationError"}, message : {"m1", "m2"},
          status_code : {ValidationStatus, ForbiddenStatus}]

WrapperInit ==
    /\ request \in Exceptions \X Exceptions
    /\ response = <<Unused, Unused>>
    /\ log_level \in {"DEBUG", "INFO"}
    /\ db = <<>>
    /\ db_commit = FALSE
    /\ request_args = NoArgs
    /\ events = <<>>
    /\ s_count = NoCount
    /\ object_query = <<>>
    /\ paginated = Unused
    /\ relationships = {}
    /\ included_args = Unused
    /\ included = Unused
    /\ stack = <<>>
    /\ direction = NoDirection

\* the handler of request i raises its exception in the wrapper
Fail ==
    \E i \in {1, 2} :
        /\ response[i] = Unused
        /\ response' = [response EXCEPT ![i] =
               respond(method_wrapper(Raised(NewCtx(db), [exc |-> request[i]]),
                                      TRUE, log_level))]
        /\ UNCHANGED <<object_query, s_count, request_args, paginated, db,
                       log_level, db_commit, request, events, relationships,
                       included_args, included, direction, stack>>

WrapperNext == Fail

SpecWrapper == WrapperInit /\ [][WrapperNext]_vars

(***************************************************************************)
(* SpecPatch: PATCH requests, and POST requests with an id, to the urls of *)
(* a resource class whose table holds any of the instances.  The request   *)
(* keeps its body, what the handler raised, and the table as it was        *)
(* before the request.                                                     *)
(***************************************************************************)
PatchInit ==
    /\ \E S \in SUBSET Ids : db \in [S -> Attributes]
    /\ log_level = "INFO"
    /\ db_commit = FALSE
    /\ request = NoRequest
    /\ request_args = NoArgs
    /\ response = Unused
    /\ events = <<>>
    /\ s_count = NoCount
    /\ object_query = <<>>
    /\ paginated = Unused
    /\ relationships = {}
    /\ included_args = Unused
    /\ included = Unused
    /\ stack = <<>>
    /\ direction = NoDirection

\* the wrapped patch has answered the request; inner is what the handler
\* itself did
PatchServed(req, args, inner, commit_ok) ==
    Served(req @@ [raised |-> IF inner.ok THEN None ELSE inner.exc.kind,
                   before |-> db],
           args, method_wrapper(inner, commit_ok, log_level))

PatchResource ==
    \E id \in Ids \cup {NoId}, args \in RequestArgs,
       commits \in Commits({"get", "wrapper"}) :
      \E body \in Bodies(id) :
        /\ PatchServed([method |-> "PATCH", id |-> id, body |-> body], args,
                       patch(NewCtx(db), s_count, args, id, body, commits,
                             log_level),
                       commits.wrapper)
        /\ UNCHANGED <<object_query, s_count, paginated, log_level, db_commit,
                       relationships, included_args, included, direction,
                       stack>>

\* a POST to the url of an id
PostResource ==
    \E id \in Ids, args \in RequestArgs,
       commits \in Commits({"get", "patch", "wrapper"}) :
      \E body \in Bodies(id) :
        /\ PatchServed([method |-> "POST", id |-> id, body |-> body], args,
                       post(NewCtx(db), s_count, args, id, body, db_commit,
                            commits @@ [post |-> TRUE], log_level),
                       commits.wrapper)
        /\ UNCHANGED <<object_query, s_count, paginated, log_level, db_commit,
                       relationships, included_args, included, direction,
                       stack>>

PatchNext == PatchResource \/ PostResource

SpecPatch == PatchInit /\ [][PatchNext]_vars

(***************************************************************************)
(* SAFRSRestRelationshipAPI (lines 897-1211): the handlers of one           *)
(* relationship endpoint.  A row of the parent class holds the value of     *)
(* the relationship in rel: for MANYTOONE the related child or NoRelated    *)
(* (None), otherwise the list of the member children.  A child is its id.   *)
(* The data member of a body is absent or null (kind "None"), an object     *)
(* with id and type (kind "dict"), a list of items (kind "list") or         *)
(* another value (kind "str"); an item is such an object or a "str".        *)
(***************************************************************************)
MANYTOONE == "MANYTOONE"

\* the data of a body that has no data member
Missing == [kind |-> "missing"]

\* lines 1029, 1125: json.get('data') is None for a body without the member
get_data(body) == IF body.data = Missing THEN [kind |-> "None"] ELSE body.data

\* the instances of the child class, and child_class.__name__
Children == [c \in {1, 2} |-> "Child"]

\* child in relation (lines 972, 1159, 1187): a MANYTOONE value, an
\* instance or None, is no container
contains(child, relation, dir) ==
    IF dir = MANYTOONE THEN PyError("TypeError")
    ELSE [ok |-> TRUE, value |-> \E i \in DOMAIN relation : relation[i] = child]

\* setattr(parent, self.rel_name, value)
setattr(ctx, parent, value) == [ctx EXCEPT !.sess[parent].rel = value]

\* parse_args (lines 1194-1211)
parse_args(ctx, parent_id) ==
    IF parent_id = NoId
    THEN Raise("ValidationError", "Invalid Parent Id", ValidationStatus)
    ELSE LET found == get_instance(ctx.sess, parent_id)
         IN  IF ~found.ok THEN found
             ELSE [ok |-> TRUE, parent |-> parent_id,
                   relation |-> ctx.sess[parent_id].rel]

\* lines 985-991: the document of a relationship GET
rel_document(result, dir, url) ==
    [status |-> OkStatus,
     body |-> [data |-> result, links |-> [self |-> url],
               meta |-> [direction |-> IF dir = MANYTOONE
                                       THEN "TOONE" ELSE "TOMANY"]]]

\* lines 966-976: the result for a child id in the url
rel_get_child(ctx, dir, relation, child_id, url) ==
    LET child == get_instance(Children, child_id)
        member == contains(child_id, relation, dir)
    IN  IF ~child.ok THEN Raised(ctx, child)
        ELSE IF dir = MANYTOONE /\ relation # NoRelated           \* 970
        THEN Returned(ctx, rel_document(<<child_id>>, dir, url))
        ELSE IF ~member.ok THEN Raised(ctx, member)               \* 972
        ELSE IF member.value
        THEN Returned(ctx, rel_document(<<child_id>>, dir, url))
        ELSE Returned(ctx, [status |-> NotFoundStatus,
                            body |-> [text |-> "Not Found"]])     \* 976

\* SAFRSRestRelationshipAPI.get (lines 951-991), unwrapped
rel_get(ctx, dir, parent_id, child_id) ==
    LET parsed == parse_args(ctx, parent_id)
    IN  IF ~parsed.ok THEN Raised(ctx, parsed)
        ELSE IF child_id # NoId
        THEN rel_get_child(ctx, dir, parsed.relation, child_id,
                           <<parent_id, child_id>>)
        ELSE Returned(ctx, rel_document(parsed.relation, dir,
                                        <<parent_id, child_id>>)) \* 978-983

\* self.get(**obj_args) called in the relationship PATCH
wrapped_rel_get(ctx, dir, parent_id, child_id, commit_ok, level) ==
    method_wrapper(rel_get(ctx, dir, parent_id, child_id), commit_ok, level)

\* lines 1060-1065: the instances the items of a list body name
RECURSIVE tmp_rel(_)
tmp_rel(items) ==
    IF items = <<>> THEN [ok |-> TRUE, list |-> <<>>]
    ELSE LET child == Head(items)
             rest == tmp_rel(Tail(items))
         IN  IF child.kind # "dict"
             THEN Raise("ValidationError", "Invalid data object",
                        ValidationStatus)
             ELSE IF child.id = NoId THEN PyError("KeyError")
             ELSE IF ~get_instance(Children, child.id).ok
             THEN get_instance(Children, child.id)
             ELSE IF ~rest.ok THEN rest
             ELSE [ok |-> TRUE, list |-> <<child.id>> \o rest.list]

\* a slip in line 1051: a list is accepted for every direction
list_accepted(dir) == FALSE

\* line 1051: a MANYTOONE relationship takes no list
list_refused(dir) == dir = MANYTOONE

\* a slip in lines 1067-1070: the new items are added to the members
extend(relation, new) == relation \o new

\* lines 1067-1070: relation[:] = tmp_rel, or the assignment of tmp_rel
replace(relation, new) == new

\* a slip in lines 1078 and 1083: nothing is set
clear_nothing(ctx, dir, parent) == ctx

\* lines 1072-1083: data is null, the relationship is cleared
clear(ctx, dir, parent) ==
    setattr(ctx, parent, IF dir = MANYTOONE THEN NoRelated ELSE <<>>)

\* lines 1033-1085: the relationship after the PATCH, and the child id the
\* handler passes on to self.get
rel_patch_data(ctx, dir, parent, data) ==
    IF data.kind = "dict"
    THEN IF dir # MANYTOONE
         THEN Raise("GenericError", "provide a list", GenericStatus)
         ELSE LET child == get_instance(Children, data.id)
              IN  IF ~child.ok THEN child
                  ELSE [ok |-> TRUE, child |-> data.id,
                        ctx |-> setattr(ctx, parent, data.id)]
    ELSE IF data.kind = "list"
    THEN IF list_refused(dir)
         THEN Raise("GenericError", "provide a dictionary", GenericStatus)
         ELSE LET new == tmp_rel(data.items)
              IN  IF ~new.ok THEN new
                  ELSE [ok |-> TRUE, child |-> NoId,
                        ctx |-> setattr(ctx, parent,
                                        replace(ctx.sess[parent].rel,
                                                new.list))]
    ELSE IF data.kind = "None"
    THEN [ok |-> TRUE, child |-> NoId, ctx |-> clear(ctx, dir, parent)]
    ELSE Raise("ValidationError", "Invalid Data Object Type", ValidationStatus)

\* lines 1087-1100: the response of the PATCH
rel_patch_response(ctx, patched, dir, parent_id, data, commits, level) ==
    IF ~patched.ok THEN Raised(ctx, patched)
    ELSE IF data.kind = "None"
    THEN Returned(patched.ctx, [status |-> OkStatus, body |-> <<>>])
    ELSE make_response(wrapped_rel_get(patched.ctx, dir, parent_id,
                                       patched.child, commits.get, level))

\* SAFRSRestRelationshipAPI.patch (lines 994-1100), unwrapped
rel_patch(ctx, dir, parent_id, body, commits, level) ==
    LET parsed == parse_args(ctx, parent_id)
    IN  IF ~parsed.ok THEN Raised(ctx, parsed)
        ELSE IF body.kind # "dict"
        THEN Raised(ctx, Raise("ValidationError", "Invalid Object Type",
                               ValidationStatus))
        ELSE rel_patch_response(
                 ctx, rel_patch_data(ctx, dir, parent_id, get_data(body)),
                 dir, parent_id, get_data(body), commits, level)

\* len(data) of line 1128 for a data that is no list: a dict has its
\* members, the text of this model one character
members(data) ==
    IF data.kind = "dict" THEN (IF data.id = NoId THEN 1 ELSE 2) ELSE 1

\* a slip in line 1130: no count of items is too many
too_many_never(n) == FALSE

\* line 1130
too_many(n) == n > 1

\* lines 1127-1142: POST to a MANYTOONE relationship
rel_post_toone(ctx, parent, data) ==
    IF data.kind = "None" THEN Raised(ctx, PyError("TypeError"))
    ELSE
    LET n == IF data.kind = "list" THEN Len(data.items) ELSE members(data)
        cleared == IF n = 0 THEN setattr(ctx, parent, NoRelated) ELSE ctx
    IN  IF too_many(n)
        THEN Raised(cleared, Raise("ValidationError", "Too many items",
                                   ForbiddenStatus))
        ELSE IF data.kind = "dict" THEN Raised(cleared, PyError("KeyError"))
        ELSE IF data.kind = "str"
        THEN Raised(cleared, PyError("AttributeError"))
        ELSE IF n = 0 THEN Raised(cleared, PyError("IndexError"))   \* 1132
        ELSE
        LET item == data.items[1]
        IN  IF item.kind # "dict"
            THEN Raised(cleared, PyError("AttributeError"))
            ELSE IF item.id = NoId \/ item.type = None
            THEN Raised(cleared, Raise("ValidationError",
                                       "Invalid data payload", ForbiddenStatus))
            ELSE IF item.type # Children[1]
            THEN Raised(cleared, Raise("ValidationError", "Invalid type",
                                       ForbiddenStatus))
            ELSE IF ~get_instance(Children, item.id).ok
            THEN Raised(cleared, get_instance(Children, item.id))
            ELSE Returned(setattr(cleared, parent, item.id),
                          [status |-> OkStatus,
                           body |-> [data |-> <<item.id>>]])

\* lines 1145-1160: the loop over the items; relation is the list so far
RECURSIVE append_items(_, _)
append_items(items, relation) ==
    IF items = <<>> THEN [ok |-> TRUE, relation |-> relation]
    ELSE LET item == Head(items)
         IN  IF item.kind # "dict"
             THEN [ok |-> FALSE, relation |-> relation,
                   exc |-> PyError("AttributeError").exc]
             ELSE IF item.id = NoId                                 \* 1149
             THEN append_items(Tail(items), relation)
             ELSE IF ~get_instance(Children, item.id).ok
             THEN [ok |-> FALSE, relation |-> relation,
                   exc |-> get_instance(Children, item.id).exc]
             ELSE IF \E i \in DOMAIN relation : relation[i] = item.id
             THEN append_items(Tail(items), relation)
             ELSE append_items(Tail(items), Append(relation, item.id))

\* lines 1144-1161: POST to a to-many relationship
rel_post_tomany(ctx, parent, relation, data) ==
    IF data.kind = "None" THEN Raised(ctx, PyError("TypeError"))
    ELSE IF data.kind # "list" THEN Raised(ctx, PyError("AttributeError"))
    ELSE LET done == append_items(data.items, relation)
         IN  IF ~done.ok THEN Raised(setattr(ctx, parent, done.relation), done)
             ELSE Returned(setattr(ctx, parent, done.relation),
                           [status |-> OkStatus,
                            body |-> [data |-> done.relation]])

\* SAFRSRestRelationshipAPI.post (lines 1102-1163), unwrapped
rel_post(ctx, dir, parent_id, body) ==
    LET parsed == parse_args(ctx, parent_id)
    IN  IF ~parsed.ok THEN Raised(ctx, parsed)
        ELSE IF body.kind # "dict"
        THEN Raised(ctx, Raise("ValidationError", "Invalid Object Type",
                               ValidationStatus))
        ELSE IF dir = MANYTOONE
        THEN rel_post_toone(ctx, parent_id, get_data(body))
        ELSE rel_post_tomany(ctx, parent_id, parsed.relation, get_data(body))

\* relation.remove(child): the first occurrence leaves the list
remove(relation, child) ==
    LET i == CHOOSE k \in DOMAIN relation :
                 relation[k] = child /\ \A j \in 1..(k - 1) : relation[j] # child
    IN  SubSeq(relation, 1, i - 1) \o SubSeq(relation, i + 1, Len(relation))

\* SAFRSRestRelationshipAPI.delete (lines 1165-1192), unwrapped.  Whether
\* an instance can be iterated is decided by its class, outside this file:
\* if it can, line 1187 looks for the child among what the related instance
\* yields, which is no instance
rel_delete(ctx, dir, parent_id, child_id, iterable) ==
    LET parsed == parse_args(ctx, parent_id)
        child == get_instance(Children, child_id)
        member == IF dir = MANYTOONE /\ parsed.relation # NoRelated /\ iterable
                  THEN [ok |-> TRUE, value |-> FALSE]
                  ELSE contains(child_id, parsed.relation, dir)
    IN  IF ~parsed.ok THEN Raised(ctx, parsed)
        ELSE IF ~child.ok THEN Raised(ctx, child)
        ELSE IF ~member.ok THEN Raised(ctx, member)
        ELSE Returned(IF member.value
                      THEN setattr(ctx, parent_id,
                                   remove(parsed.relation, child_id))
                      ELSE ctx,
                      [status |-> OkStatus, body |-> <<>>])

(***************************************************************************)
(* SpecRel: requests to one relationship endpoint, one after the other.    *)
(* db is the table of the parent class: parent 1 exists, parent 2 does     *)
(* not; the children 1 and 2 exist, child 3 does not.  The request keeps   *)
(* what the handler raised before the wrapper turned it into a response,   *)
(* and the relationship of the parent as it was before the request.        *)
(***************************************************************************)
Directions == {MANYTOONE, "ONETOMANY", "MANYTOMANY"}

Parent == 1
ParentIds == {NoId, 1, 2}
ChildIds == {NoId, 1, 2, 3}

\* the values a relationship of the direction can have
Relations(dir) ==
    IF dir = MANYTOONE THEN {NoRelated} \cup DOMAIN Children
    ELSE {<<>>, <<1>>, <<2>>, <<1, 2>>, <<2, 1>>}

\* a resource identifier object, and an element that is no object
Identifier(id, type) == [kind |-> "dict", id |-> id, type |-> type]
Text == [kind |-> "str"]

\* the lists of the requests
DataLists ==
    {<<>>,
     <<Identifier(1, "Child")>>, <<Identifier(2, "Child")>>,
     <<Identifier(3, "Child")>>, <<Identifier(NoId, "Child")>>,
     <<Identifier(1, "Other")>>, <<Identifier(1, None)>>, <<Text>>,
     <<Identifier(1, "Child"), Identifier(2, "Child")>>,
     <<Identifier(2, "Child"), Identifier(1, "Child")>>,
     <<Identifier(1, "Child"), Identifier(1, "Child")>>,
     <<Identifier(1, "Child"), Identifier(3, "Child")>>,
     <<Identifier(3, "Child"), Identifier(2, "Child")>>,
     <<Identifier(NoId, "Child"), Identifier(2, "Child")>>,
     <<Identifier(1, "Child"), Text>>,
     <<Identifier(3, "Child"), Text>>,
     <<Text, Identifier(3, "Child")>>}

RelData ==
    {[kind |-> "None"], Missing, Text,
     Identifier(1, "Child"), Identifier(3, "Child"), Identifier(NoId, "Child")}
        \cup {[kind |-> "list", items |-> l] : l \in DataLists}

\* the bodies sent to a parent: every shape to the parent that exists
RelBodies(parent_id) ==
    IF parent_id = Parent
    THEN {[kind |-> "list"]} \cup {[kind |-> "dict", data |-> d] : d \in RelData}
    ELSE {[kind |-> "dict", data |-> [kind |-> "None"]]}

NoBody == [kind |-> "None"]

RelInit ==
    /\ direction \in Directions
    /\ db \in {<<[rel |-> r]>> : r \in Relations(direction)}
    /\ log_level = "INFO"
    /\ db_commit = FALSE
    /\ request = NoRequest
    /\ request_args = NoArgs
    /\ response = Unused
    /\ events = <<>>
    /\ s_count = NoCount
    /\ object_query = <<>>
    /\ paginated = Unused
    /\ relationships = {}
    /\ included_args = Unused
    /\ included = Unused
    /\ stack = <<>>

\* the wrapped handler has answered the request req; inner is what the
\* handler itself did
RelServed(req, inner, commit_ok) ==
    Served(req @@ [raised |-> IF inner.ok THEN None ELSE inner.exc.kind,
                   before |-> db[Parent].rel],
           NoArgs, method_wrapper(inner, commit_ok, log_level))

RelGet ==
    \E parent_id \in ParentIds, child_id \in ChildIds,
       commits \in Commits({"wrapper"}) :
        /\ RelServed([method |-> "GET", parent |-> parent_id,
                      child |-> child_id, body |-> NoBody],
                     rel_get(NewCtx(db), direction, parent_id, child_id),
                     commits.wrapper)
        /\ UNCHANGED <<object_query, s_count, paginated, log_level, db_commit,
                       relationships, included_args, included, direction,
                       stack>>

RelPatch ==
    \E parent_id \in ParentIds, commits \in Commits({"get", "wrapper"}) :
      \E body \in RelBodies(parent_id) :
        /\ RelServed([method |-> "PATCH", parent |-> parent_id,
                      child |-> NoId, body |-> body],
                     rel_patch(NewCtx(db), direction, parent_id, body,
                               commits, log_level),
                     commits.wrapper)
        /\ UNCHANGED <<object_query, s_count, paginated, log_level, db_commit,
                       relationships, included_args, included, direction,
                       stack>>

RelPost ==
    \E parent_id \in ParentIds, commits \in Commits({"wrapper"}) :
      \E body \in RelBodies(parent_id) :
        /\ RelServed([method |-> "POST", parent |-> parent_id,
                      child |-> NoId, body |-> body],
                     rel_post(NewCtx(db), direction, parent_id, body),
                     commits.wrapper)
        /\ UNCHANGED <<object_query, s_count, paginated, log_level, db_commit,
                       relationships, included_args, included, direction,
                       stack>>

RelDelete ==
    \E parent_id \in ParentIds, child_id \in ChildIds,
       commits \in Commits({"wrapper"}), iterable \in BOOLEAN :
        /\ RelServed([method |-> "DELETE", parent |-> parent_id,
                      child |-> child_id, body |-> NoBody],
                     rel_delete(NewCtx(db), direction, parent_id, child_id,
                                iterable),
                     commits.wrapper)
        /\ UNCHANGED <<object_query, s_count, paginated, log_level, db_commit,
                       relationships, included_args, included, direction,
                       stack>>

RelNext == RelGet \/ RelPatch \/ RelPost \/ RelDelete

SpecRel == RelInit /\ [][RelNext]_vars

(***************************************************************************)
(* SpecRace: two requests to the to-many relationship of the parent, each  *)
(* in a thread and a session of its own.  A request begins by reading the  *)
(* row of the parent into its session (parse_args), its handler changes    *)
(* the relationship there, and the commit of the wrapper writes the        *)
(* relationship of a changed session to the table.  request[r] holds the   *)
(* position (pc) of request r, its session (ctx), the relationship it has  *)
(* read and what its handler did (inner); events lists the requests in the *)
(* order they wrote to the table.                                          *)
(***************************************************************************)
Requests == {1, 2}

\* the requests that change a to-many relationship: POST appends, PATCH
\* replaces or clears
RaceRequests ==
    {[method |-> "POST", body |-> [kind |-> "dict", data |-> d]] :
        d \in {[kind |-> "list", items |-> l] :
                  l \in {<<Identifier(1, "Child")>>,
                         <<Identifier(2, "Child")>>}}}
    \cup {[method |-> "PATCH", body |-> [kind |-> "dict", data |-> d]] :
        d \in {[kind |-> "None"]}
              \cup {[kind |-> "list", items |-> l] :
                       l \in {<<Identifier(1, "Child")>>,
                              <<Identifier(2, "Child")>>}}}

Idle == [pc |-> "idle", method |-> "none", body |-> NoBody,
         ctx |-> Unused, read |-> <<>>, inner |-> Unused]

RaceInit ==
    /\ direction \in Directions \ {MANYTOONE}
    /\ db \in {<<[rel |-> r]>> : r \in Relations(direction)}
    /\ request = [r \in Requests |-> Idle]
    /\ response = [r \in Requests |-> Unused]
    /\ events = <<>>
    /\ log_level = "INFO"
    /\ db_commit = FALSE
    /\ request_args = NoArgs
    /\ s_count = NoCount
    /\ object_query = <<>>
    /\ paginated = Unused
    /\ relationships = {}
    /\ included_args = Unused
    /\ included = Unused
    /\ stack = <<>>

\* the handler of a request as it runs in the session ctx
handle(req, ctx, dir, level) ==
    IF req.method = "POST" THEN rel_post(ctx, dir, Parent, req.body)
    ELSE rel_patch(ctx, dir, Parent, req.body, [get |-> TRUE], level)

\* a commit of the session that gave ctx the committed rows com writes to
\* the table if the session had changed them
written(before, ctx) == "commit" \in Range(ctx.events) /\ ctx.com # before.com

\* lines 1209-1210: the request reads the parent and its relationship
RaceBegin ==
    \E r \in Requests, req \in RaceRequests :
        /\ request[r].pc = "idle"
        /\ request' = [request EXCEPT ![r] =
               [pc |-> "read", method |-> req.method, body |-> req.body,
                ctx |-> NewCtx(db), read |-> db[Parent].rel,
                inner |-> Unused]]
        /\ UNCHANGED <<object_query, s_count, request_args, paginated, db,
                       log_level, db_commit, response, events, relationships,
                       included_args, included, direction, stack>>

\* the handler runs on what the request has read; the commit of the
\* wrapped self.get of a PATCH writes
HandleWrites(r, inner) ==
    /\ request' = [request EXCEPT ![r].pc = "handled", ![r].inner = inner]
    /\ db' = IF written(request[r].ctx, inner.ctx) THEN inner.ctx.com ELSE db
    /\ events' = IF written(request[r].ctx, inner.ctx)
                 THEN Append(events, r) ELSE events

RaceHandle ==
    \E r \in Requests :
        /\ request[r].pc = "read"
        /\ HandleWrites(r, handle(request[r], request[r].ctx, direction,
                                  log_level))
        /\ UNCHANGED <<object_query, s_count, request_args, paginated,
                       log_level, db_commit, response, relationships,
                       included_args, included, direction, stack>>

\* line 65 of the wrapper of the request, and its answer
CommitWrites(r, inner, out) ==
    /\ request' = [request EXCEPT ![r].pc = "done"]
    /\ response' = [response EXCEPT ![r] = respond(out)]
    /\ db' = IF written(inner.ctx, out.ctx) THEN out.ctx.com ELSE db
    /\ events' = IF written(inner.ctx, out.ctx) THEN Append(events, r)
                 ELSE events

RaceCommit ==
    \E r \in Requests :
        /\ request[r].pc = "handled"
        /\ CommitWrites(r, request[r].inner,
                        method_wrapper(request[r].inner, TRUE, log_level))
        /\ UNCHANGED <<object_query, s_count, request_args, paginated,
                       log_level, db_commit, relationships, included_args,
                       included, direction, stack>>

RaceNext == RaceBegin \/ RaceHandle \/ RaceCommit

SpecRace == RaceInit /\ [][RaceNext]_vars

(***************************************************************************)
(* Claims about paginate, checked under SpecPaginate.                      *)
(***************************************************************************)
\* the request asks for page[offset]=O, page[limit]=L and paginate returned
PageOf(O, L) ==
    /\ request_args.offset = ToString(O)
    /\ request_args.limit = ToString(L)
    /\ paginated # Unused
    /\ paginated.ok

\* the pairs the specification of the links names, from O, L and the count
SpecLast(count, L) == <<(count \div L) * L, L>>
SpecSelf(O, count, L) == <<Min((O \div L) * L, SpecLast(count, L)[1]), L>>
SpecNext(O, count, L) ==
    IF O + L > SpecLast(count, L)[1] THEN SpecLast(count, L) ELSE <<O + L, L>>
SpecPrev(O, L) == IF O <= L THEN <<0, L>> ELSE <<O - L, L>>

\* C4: for count >= 0, L > 0, O >= 0 the first link is omitted iff (0, L) is
\* the self pair (min(page_base, last_offset), L), and the last link is
\* omitted iff (last_offset, L) is that self pair.
C4_FirstLastOmittedIffSelf ==
    \A O \in Numerals, L \in 1..MaxArg :
        PageOf(O, L) =>
            LET c == paginated.count
                has == DOMAIN paginated.links
            IN  /\ ("first" \notin has) <=> (<<0, L>> = SpecSelf(O, c, L))
                /\ ("last" \notin has) <=> (SpecLast(c, L) = SpecSelf(O, c, L))

\* C4 witness: a page past the last one, where the clamp decides: the last
\* link is omitted and the first link is present.
C4_Witness ==
    \E O \in Numerals, L \in 1..MaxArg :
        /\ PageOf(O, L)
        /\ (O \div L) * L > SpecLast(paginated.count, L)[1]
        /\ "last" \notin DOMAIN paginated.links
        /\ "first" \in DOMAIN paginated.links

\* C5: the next link is omitted exactly when its target pair equals the self
\* pair, and the prev link exactly when its target pair equals the self pair.
C5_NextPrevOmittedIffSelf ==
    \A O \in Numerals, L \in 1..MaxArg :
        PageOf(O, L) =>
            LET c == paginated.count
                has == DOMAIN paginated.links
            IN  /\ ("next" \notin has) <=> (SpecNext(O, c, L) = SpecSelf(O, c, L))
                /\ ("prev" \notin has) <=> (SpecPrev(O, L) = SpecSelf(O, c, L))

\* paginate has returned a page
Paged == paginated # Unused /\ paginated.ok

\* the value v of a page parameter is given and is not an integer
NotInt(v) == v # None /\ ~IsIntText(v)

\* C21: a page[limit] that is not an integer is ignored: paginate does not
\* fail, and the page and the self link use the configured default limit.
\* A page[offset] that is not an integer is treated as 0.
C21_InvalidPageArgsIgnored ==
    paginated # Unused =>
        /\ NotInt(request_args.limit)
              => /\ paginated.ok
                 /\ paginated.links.self[2] = UNLIMITED
                 /\ Len(paginated.instances)
                        = Min(UNLIMITED,
                              Len(object_query) - page_offset_of(request_args))
        /\ (Paged /\ NotInt(request_args.offset))
              => /\ paginated.links.self[1] = 0
                 /\ paginated.instances
                        = SubSeq(object_query, 1,
                                 Min(Len(object_query), paginated.links.self[2]))

\* C30: for every count > 0, positive integer page[limit] and integer
\* page[offset], every link paginate emits (self, first, last, prev, next)
\* targets an offset in 0..count-1, so that the page it leads to is not
\* empty.
C30_LinksInRange ==
    \A O \in Numerals, L \in 1..MaxArg :
        (PageOf(O, L) /\ paginated.count > 0)
            => \A k \in DOMAIN paginated.links :
                   paginated.links[k][1] \in 0..(paginated.count - 1)

(***************************************************************************)
(* Claims about the collection GET, checked under SpecGet.                 *)
(***************************************************************************)
\* the GET was answered with the handler's document
GotPage == response # Unused /\ "data" \in DOMAIN response.body

\* no page[offset], no page[limit]: the page holds every row of the query
Untruncated == request_args.offset = None /\ request_args.limit = None

\* the instances whose column c has one of the values written in v
Matching(c, v) == {i \in DOMAIN db : \E k \in 1..Len(v) : ToString(db[i][c]) = v[k]}

\* C3: with page[limit]=L > 0 and page[offset]=O, 0 <= O < count, the page has
\* exactly min(L, count-O) items and the self link carries O and L.
C3_PageSizeAndSelf ==
    \A O \in Numerals, L \in 1..MaxArg :
        ( /\ GotPage
          /\ request_args.offset = ToString(O)
          /\ request_args.limit = ToString(L)
          /\ O < response.body.meta.count )
        => /\ Len(response.body.data) = Min(L, response.body.meta.count - O)
           /\ response.body.links.self = <<O, L>>

\* C6: a GET with one filter[col]=a,b and no truncation returns exactly the
\* instances whose col value is one of a, b.
C6_SingleFilterExact ==
    ( /\ GotPage
      /\ Untruncated
      /\ Len(request_args.filter) = 1 )
    => Range(response.body.data)
         = Matching(request_args.filter[1][1], request_args.filter[1][2])

\* C6 witness: a filter that one instance passes and another does not.
C6_Witness ==
    /\ GotPage
    /\ Untruncated
    /\ Len(request_args.filter) = 1
    /\ Len(request_args.filter[1][2]) = 2
    /\ Range(response.body.data) # {}
    /\ Range(response.body.data) # DOMAIN db

\* C7: a GET with filters on two different columns returns the union of the
\* two single-column filtered sets, not their intersection.
C7_TwoFiltersUnion ==
    ( /\ GotPage
      /\ Untruncated
      /\ Len(request_args.filter) = 2 )
    => Range(response.body.data)
         = Matching(request_args.filter[1][1], request_args.filter[1][2])
           \cup Matching(request_args.filter[2][1], request_args.filter[2][2])

\* C7 witness: an instance that passes only one of the two filters is
\* returned, and the table holds an instance that passes neither.
C7_Witness ==
    /\ GotPage
    /\ Untruncated
    /\ Len(request_args.filter) = 2
    /\ LET A == Matching(request_args.filter[1][1], request_args.filter[1][2])
           B == Matching(request_args.filter[2][1], request_args.filter[2][2])
       IN  /\ \E i \in (A \ B) \cup (B \ A) : i \in Range(response.body.data)
           /\ (DOMAIN db) \ (A \cup B) # {}

\* the sort parameter names known columns only
SortKeys == {<<c>> : c \in Columns} \cup {<<"-", c>> : c \in Columns}
KnownSort ==
    /\ request_args.has_sort
    /\ \A k \in 1..Len(request_args.sort) : request_args.sort[k] \in SortKeys

\* the column and the direction an item of the sort parameter asks for
ColOf(item) == item[Len(item)]
Descending(item) == Len(item) = 2

\* instance x may stand before instance y under the sort parameter: on the
\* first key they differ in, x has the smaller value (the larger, descending)
InOrder(srt, x, y) ==
    \/ \A k \in 1..Len(srt) : db[x][ColOf(srt[k])] = db[y][ColOf(srt[k])]
    \/ \E k \in 1..Len(srt) :
          /\ \A j \in 1..(k - 1) : db[x][ColOf(srt[j])] = db[y][ColOf(srt[j])]
          /\ IF Descending(srt[k])
             THEN db[x][ColOf(srt[k])] > db[y][ColOf(srt[k])]
             ELSE db[x][ColOf(srt[k])] < db[y][ColOf(srt[k])]

\* C8: sort=-col returns the instances in non-increasing col order, and
\* sort=col1,col2 orders by col1 with ties broken by col2: the keys apply in
\* the order given.
C8_SortedByKeys ==
    (GotPage /\ KnownSort) =>
        LET data == response.body.data
        IN  \A i \in 1..Len(data), j \in 1..Len(data) :
                i < j => InOrder(request_args.sort, data[i], data[j])

\* C8 witness: sort=a,-b or sort=-a,b on two instances that tie on a and that
\* the table holds in the other order of b.
C8_Witness ==
    /\ GotPage
    /\ KnownSort
    /\ Len(request_args.sort) = 2
    /\ ColOf(request_args.sort[1]) = "a"
    /\ request_args.filter = <<>>
    /\ Len(response.body.data) >= 2
    /\ \E i \in 1..Len(response.body.data), j \in 1..Len(response.body.data) :
          /\ i < j
          /\ response.body.data[i] > response.body.data[j]
          /\ db[response.body.data[i]].a = db[response.body.data[j]].a
          /\ db[response.body.data[i]].b # db[response.body.data[j]].b

\* C25: a collection GET whose page[limit] is an integer that is not
\* positive fails with a ValidationError, not with an unclassified error
\* of status 500, and returns no page.
C25_NonPositiveLimitRejected ==
    (/\ response # Unused
     /\ request_args.limit # None /\ IsIntText(request_args.limit)
     /\ int(request_args.limit) <= 0 /\ ~CommitFailed(events))
        => /\ IsError(response)
           /\ response.status = ValidationStatus
           /\ response.body.errors[1].detail # "Unknown Error"

\* the items of the sort parameter that name a column of the class
KnownPart(srt) == SelectSeq(srt, LAMBDA item : item \in SortKeys)

\* the sort parameter has an item that names no column of the class
UnknownSort ==
    /\ request_args.has_sort
    /\ \E k \in 1..Len(request_args.sort) : request_args.sort[k] \notin SortKeys

\* C28: a sort key that names no column of the class, ascending or
\* descending, is a no-op that keeps the ordering the other keys give, or
\* fails with a ValidationError; it never fails with an unclassified error
\* and never discards the ordering of the keys before it.
C28_UnknownSortKey ==
    (response # Unused /\ UnknownSort /\ ~CommitFailed(events))
        => IF IsError(response)
           THEN /\ response.status = ValidationStatus
                /\ response.body.errors[1].detail # "Unknown Error"
           ELSE LET data == response.body.data
                IN  \A i \in 1..Len(data), j \in 1..Len(data) :
                        i < j => InOrder(KnownPart(request_args.sort),
                                         data[i], data[j])

Roots ==
    IF included_args.data.kind = "SAFRSBase" THEN {included_args.data.obj}
    ELSE IF included_args.data.kind = "list" THEN included_args.data.members
    ELSE {}

\* the resources the relationship key of n leads to
Targets(n, key) ==
    {e[3] : e \in {x \in relationships : x[1] = n /\ x[2] = key}}

\* the resources one relationship hop away from a resource of S
Hop(S) == {e[3] : e \in {x \in relationships : x[1] \in S}}

\* no relationship has more members than the limit
NoTruncation ==
    \A n \in Related, key \in {"one", "many", "dyn"} :
        Cardinality(Targets(n, key)) <= included_args.limit

\* the first limit members of the relationship key of n
FirstMembers(n, key) ==
    {t \in Targets(n, key) :
        Cardinality({u \in Targets(n, key) : u < t}) < included_args.limit}

C10_NestedEveryShape ==
    \A rel \in {"one", "many", "dyn"}, nest \in {"one", "many", "dyn"} :
        (included # Unused /\ included_args.include = <<rel, ".", nest>>
         /\ NoTruncation)
        => LET direct == UNION {Targets(r, rel) : r \in Roots}
           IN  included.set
                   = direct \cup UNION {Targets(t, nest) : t \in direct}


\* C32: the set get_included returns is the same for every order in which
\* the comma-separated include tokens are processed; a nested path is
\* resolved against the resources reached through its own first segment
\* only.
C32_TokenOrderIrrelevant ==
    included # Unused =>
        \A pri \in Orders(Range(split(included_args.include, ","))) :
            get_included(included_args.data, included_args.limit,
                         included_args.include, pri) = included.set

(***************************************************************************)
(* Claims about the wrapped handlers, checked under Spec.                  *)
(***************************************************************************)
\* C1: a request that ends with an error response leaves the committed
\* store as it was before the request.
C1_ErrorLeavesStore == [][IsError(response') => db' = db]_vars

\* C2: a wrapped handler invocation ends in one of two ways.  Either its
\* result is returned: then the commit was the last thing done to the
\* session, nothing was rolled back, and the body has no errors member.
\* Or an error response is emitted: then the session was rolled back just
\* before it (as before every abort of a nested invocation), the body is
\* an errors list of exactly one entry holding a detail, and there is no
\* data member.
C2_CommitOrRollback ==
    response # Unused =>
        /\ events # <<>>
        /\ \A i \in DOMAIN events :
               events[i] = "abort" => (i > 1 /\ events[i - 1] = "rollback")
        /\ IF IsError(response)
           THEN /\ events[Len(events)] = "abort"
                /\ DOMAIN response.body = {"errors"}
                /\ Len(response.body.errors) = 1
                /\ DOMAIN response.body.errors[1] = {"detail"}
           ELSE /\ events[Len(events)] = "commit"
                /\ \A i \in DOMAIN events :
                       events[i] \notin {"rollback", "abort", "commit_failed"}

\* both ways are taken: a request whose commit failed got an error
\* response after the rollback, having committed in a nested invocation
\* before
C2_Witness ==
    /\ IsError(response)
    /\ \E i \in DOMAIN events : events[i] = "commit"
    /\ \E i \in DOMAIN events : events[i] = "commit_failed"
    /\ events[Len(events) - 1] = "rollback"

\* C27: the set get_included returns never contains a resource of the
\* primary data it was given (the root instance, or an element of the root
\* collection), for every include and every relationship graph, a related
\* resource that points back to a root included.
C27_NoPrimaryDataIncluded ==
    included # Unused => included.set \cap Roots = {}

(***************************************************************************)
(* Claims about the relationship endpoint, checked under SpecRel.  A       *)
(* claim about what a request does speaks of the requests whose commit     *)
(* the database accepted.                                                  *)
(***************************************************************************)
\* the relationship of the parent, as committed
Relation == db[Parent].rel

\* r is a PATCH to the parent with a body whose data is null
PatchNull(r) ==
    /\ r.method = "PATCH" /\ r.parent = Parent
    /\ r.body.kind = "dict" /\ r.body.data.kind = "None"

IsMember(child, rel) ==
    IF direction = MANYTOONE THEN rel = child
    ELSE \E i \in DOMAIN rel : rel[i] = child

\* r is a request of the method to the parent that exists
To(r, method) == r.method = method /\ r.parent = Parent

\* the empty document with status 200
EmptyOk == [status |-> OkStatus, body |-> <<>>]

\* C12: relationship DELETE is idempotent.  For every direction and every
\* value of the relationship, the DELETE of a child succeeds with an empty
\* body; a child that is no member leaves the relationship unchanged, a
\* member is removed (so that repeating the DELETE succeeds as well).
C12_DeleteIdempotent ==
    [][(/\ To(request', "DELETE") /\ request'.child \in DOMAIN Children
        /\ ~CommitFailed(events'))
          => /\ response' = EmptyOk
             /\ ~IsMember(request'.child, Relation')
             /\ ~IsMember(request'.child, Relation) => Relation' = Relation]_vars


\* r carries a body whose data is a list
ListBody(r) == r.body.kind = "dict" /\ r.body.data.kind = "list"

\* C13: a relationship POST to a MANYTOONE relationship whose data list has
\* two or more elements fails with a ValidationError of status 403, and the
\* relation keeps the value it had before the request.
C13_ToOnePostTooMany ==
    [][(/\ direction = MANYTOONE /\ To(request', "POST") /\ ListBody(request')
        /\ Len(request'.body.data.items) >= 2)
          => /\ request'.raised = "ValidationError"
             /\ response'.status = ForbiddenStatus
             /\ IsError(response')
             /\ Relation' = Relation]_vars

\* a POST of two elements to a MANYTOONE relationship that holds a child
\* was refused with 403
C13_Witness ==
    /\ direction = MANYTOONE /\ To(request, "POST") /\ ListBody(request)
    /\ Len(request.body.data.items) = 2
    /\ response.status = ForbiddenStatus
    /\ request.before # NoRelated /\ Relation = request.before


\* the items of the list body of r
Items(r) == r.body.data.items

\* C14: a relationship POST to a MANYTOONE relationship with an empty data
\* list clears the relation and succeeds; with one element whose type is
\* the name of the child class it sets the relation to that child; with one
\* element of another type it fails with a validation error of status 403.
C14_ToOnePost ==
    [][(direction = MANYTOONE /\ To(request', "POST") /\ ListBody(request'))
          => /\ (Items(request') = <<>> /\ ~CommitFailed(events'))
                   => (~IsError(response') /\ Relation' = NoRelated)
             /\ (/\ Len(Items(request')) = 1
                 /\ Items(request')[1].kind = "dict"
                 /\ Items(request')[1].type = Children[1]
                 /\ Items(request')[1].id \in DOMAIN Children
                 /\ ~CommitFailed(events'))
                   => (~IsError(response')
                       /\ Relation' = Items(request')[1].id)
             /\ (/\ Len(Items(request')) = 1
                 /\ Items(request')[1].kind = "dict"
                 /\ Items(request')[1].type # Children[1])
                   => (/\ request'.raised = "ValidationError"
                       /\ response'.status = ForbiddenStatus)]_vars


\* the children in the list rel
MemberSet(rel) == {rel[i] : i \in DOMAIN rel}

\* the children the items name that have an id and resolve to an instance
Resolved(items) ==
    {items[i].id : i \in {k \in DOMAIN items :
                             items[k].id \in DOMAIN Children}}

C16_GetChildOnlyIfRelated ==
    [][(/\ To(request', "GET") /\ request'.child # NoId
        /\ ~CommitFailed(events'))
          => IF IsMember(request'.child, Relation)
             THEN /\ response'.status = OkStatus
                  /\ response'.body.data = <<request'.child>>
             ELSE response'.status = NotFoundStatus]_vars


\* every item of the list body of r names a child that exists
NamesChildren(r) ==
    \A i \in DOMAIN Items(r) :
        Items(r)[i].kind = "dict" /\ Items(r)[i].id \in DOMAIN Children

\* the children the list body of r names
Named(r) == {Items(r)[i].id : i \in DOMAIN Items(r)}

\* r is a GET of the parent's relationship without child id
GetAll(r) == To(r, "GET") /\ r.child = NoId

\* C17: a relationship PATCH with a list body on a to-many relationship
\* replaces the members: afterwards the members are exactly the children
\* named in the list (none for the empty list), whatever the members were
\* before, and a GET of the relationship that follows returns exactly
\* those children.
C17_PatchListReplaces ==
    [][direction # MANYTOONE =>
        /\ (/\ To(request', "PATCH") /\ ListBody(request')
            /\ NamesChildren(request') /\ ~CommitFailed(events'))
              => /\ response'.status = CreatedStatus
                 /\ MemberSet(Relation') = Named(request')
                 /\ Len(Relation') = Len(Items(request'))
                 /\ response'.body.data = Relation'
        /\ (/\ To(request, "PATCH") /\ ListBody(request)
            /\ response.status = CreatedStatus
            /\ GetAll(request') /\ ~CommitFailed(events'))
              => /\ response'.status = OkStatus
                 /\ MemberSet(response'.body.data) = Named(request)]_vars

\* a PATCH with a list has replaced a member by another child
C17_Witness ==
    /\ direction # MANYTOONE /\ To(request, "PATCH") /\ ListBody(request)
    /\ response.status = CreatedStatus
    /\ Named(request) # {}
    /\ MemberSet(request.before) \ Named(request) # {}
    /\ MemberSet(Relation) = Named(request)


\* the data of the body of r has a shape the PATCH of a relationship of
\* the direction does not support
Unsupported(r) ==
    /\ r.body.kind = "dict"
    /\ \/ r.body.data.kind = "dict" /\ direction # MANYTOONE
       \/ r.body.data.kind = "list" /\ direction = MANYTOONE
       \/ /\ r.body.data.kind = "list"
          /\ \E i \in DOMAIN Items(r) : Items(r)[i].kind # "dict"
       \/ r.body.data.kind \notin {"dict", "list", "None"}

\* C18: a relationship PATCH with an unsupported shape (an object on a
\* to-many relationship, a list on a MANYTOONE relationship, a list with
\* an element that is no object, a data that is neither object, list nor
\* null) is rejected with a ValidationError and leaves the relationship
\* exactly as it was.
C18_PatchUnsupportedShape ==
    [][(To(request', "PATCH") /\ Unsupported(request'))
          => /\ request'.raised = "ValidationError"
             /\ IsError(response')
             /\ Relation' = Relation]_vars


\* the value v of a relationship is one instance or null, no collection
AtMostOnePeer(v) ==
    ToString(v) \in {ToString(c) : c \in {NoRelated} \cup DOMAIN Children}

\* C23: after any sequence of relationship GET, PATCH, POST and DELETE
\* requests, successful or failed, a MANYTOONE relationship holds at most
\* one peer: a single instance or null, never a collection.
C23_ToOneAtMostOnePeer ==
    direction = MANYTOONE => AtMostOnePeer(Relation)

\* a PATCH that brought a list of two children to a MANYTOONE relationship
\* was refused, and a POST has replaced the peer by another one
C23_Witness ==
    /\ direction = MANYTOONE /\ AtMostOnePeer(Relation)
    /\ \/ /\ To(request, "PATCH") /\ ListBody(request)
          /\ Len(Items(request)) = 2 /\ IsError(response)
          /\ Relation # NoRelated
       \/ /\ To(request, "POST") /\ ~IsError(response)
          /\ request.before # NoRelated /\ Relation # request.before


\* r is a PATCH to the parent whose body is an object without data member
PatchNoData(r) ==
    /\ r.method = "PATCH" /\ r.parent = Parent
    /\ r.body.kind = "dict" /\ r.body.data = Missing

\* C33: a relationship PATCH whose body has no data member leaves the
\* relationship as it was.
C33_PatchWithoutDataKeeps ==
    [][PatchNoData(request') => Relation' = Relation]_vars


\* no value is in the sequence twice
NoDuplicates(seq) ==
    \A i \in DOMAIN seq, j \in DOMAIN seq : seq[i] = seq[j] => i = j

\* C34: on a to-many relationship no child is a member more than once
\* after any sequence of relationship requests, neither in the
\* relationship nor in the members a successful request reports, a data
\* list that names a child several times included.
C34_NoDuplicateMembers ==
    (direction # MANYTOONE /\ response # Unused)
        => /\ NoDuplicates(Relation)
           /\ (~IsError(response) /\ "data" \in DOMAIN response.body)
                  => NoDuplicates(response.body.data)

(***************************************************************************)
(* Claims about the PATCH of a resource, checked under SpecPatch.          *)
(***************************************************************************)
\* the body of the PATCH r is no object, has no data object, or its data
\* has no id or not the id of the url
InvalidPatch(r) ==
    \/ r.body.kind # "dict"
    \/ r.body.data.kind # "dict"
    \/ r.body.data.id = NoId
    \/ validate_id(r.body.data.id) # validate_id(r.id)

\* C19: a resource PATCH whose body data.id is missing or does not decode
\* to the id of the url fails with a ValidationError and modifies no
\* attribute of any instance; so does one whose body is no JSON object or
\* whose data is missing or no object.
C19_InvalidPatchRejected ==
    (request.method = "PATCH" /\ InvalidPatch(request))
        => /\ request.raised = "ValidationError"
           /\ IsError(response)
           /\ response.status = ValidationStatus
           /\ db = request.before

\* a PATCH of an instance that exists, with attributes that differ from
\* its own and the id of another instance in the body, was refused
C19_Witness ==
    /\ request.method = "PATCH" /\ request.id \in DOMAIN db
    /\ request.body.kind = "dict" /\ request.body.data.kind = "dict"
    /\ request.body.data.id \notin {NoId, request.id}
    /\ request.body.data.attributes # db[request.id]
    /\ request.raised = "ValidationError"

\* C20: resource PATCH is an upsert by id.  If an instance of the url id
\* exists, its attributes are updated with the submitted ones; if none
\* exists, one is created with that id and the submitted attributes; in
\* both cases the response has status 201 and a Location header for that
\* instance.
C20_PatchUpserts ==
    (/\ request.method = "PATCH" /\ request.id # NoId
     /\ ~InvalidPatch(request)
     /\ request_args.limit = None /\ ~CommitFailed(events))
        => /\ response.status = CreatedStatus
           /\ response.headers.Location = <<request.id>>
           /\ request.id \in DOMAIN db
           /\ db[request.id] = request.body.data.attributes
           /\ \A i \in DOMAIN request.before \ {request.id} :
                  i \in DOMAIN db /\ db[i] = request.before[i]


(***************************************************************************)
(* Claims about the wrapper alone, checked under SpecWrapper.              *)
(***************************************************************************)
\* the exception of request i is of no class the wrapper knows
Unclassified(i) == request[i].kind \notin Classified \cup {"NotFound"}

\* the wrapper has answered request i
Answered(i) == response[i] # Unused

\* the detail the client of request i reads
Detail(i) == response[i].body.errors[1].detail

\* C22: for an exception of no known class, when the level of the logger
\* is above DEBUG, the detail returned is the fixed generic string and does
\* not depend on the message of the exception: two requests that fail with
\* different messages get the same detail.  The status is 500 unless the
\* exception declares a status_code of its own.
C22_UnclassifiedRedacted ==
    log_level # "DEBUG" =>
        /\ \A i \in {1, 2} :
              (Answered(i) /\ Unclassified(i))
                 => /\ Detail(i) = "Unknown Error"
                    /\ response[i].status
                          = IF request[i].status_code = NoStatus
                            THEN ServerErrorStatus
                            ELSE request[i].status_code
        /\ (/\ Answered(1) /\ Answered(2)
            /\ Unclassified(1) /\ Unclassified(2))
              => Detail(1) = Detail(2)

\* two requests failed with different messages, one exception with a
\* status of its own, and both clients read the same detail
C22_Witness ==
    /\ log_level # "DEBUG"
    /\ Answered(1) /\ Answered(2) /\ Unclassified(1) /\ Unclassified(2)
    /\ request[1].message # request[2].message
    /\ request[1].status_code = OwnStatus /\ request[2].status_code = NoStatus
    /\ response[1].status = OwnStatus /\ response[2].status = ServerErrorStatus
    /\ Detail(1) = Detail(2)


\* the request was answered as the wrapped handler outcome ref answers it
AnsweredAs(ref) == response = respond(ref) /\ db = ref.ctx.com

\* C24: a resource POST with an id in the url behaves as a resource PATCH
\* with the same id and body: the same state change and the same response
\* on success, and on failure the error kind, message and status PATCH
\* gives.
C24_PostWithIdAsPatch ==
    (request.method = "POST" /\ ~CommitFailed(events))
        => AnsweredAs(method_wrapper(
                          patch(NewCtx(request.before), s_count, request_args,
                                request.id, request.body, [get |-> TRUE],
                                log_level),
                          TRUE, log_level))


(***************************************************************************)
(* Claims about concurrent relationship requests, checked under SpecRace.  *)
(***************************************************************************)
BothSucceeded ==
    \A r \in Requests : response[r] # Unused /\ ~IsError(response[r])

\* the children a request names
RaceNamed(r) ==
    IF request[r].body.data.kind = "list"
    THEN {request[r].body.data.items[i].id :
             i \in 1..Len(request[r].body.data.items)}
    ELSE {}

\* the membership a request computes from the relationship it has read
Computed(r) ==
    IF request[r].method = "POST"
    THEN MemberSet(request[r].read) \cup RaceNamed(r)
    ELSE RaceNamed(r)

\* C26: a relationship request is read-then-write: when two concurrent
\* requests on the to-many relationship of one parent have both completed
\* successfully, the membership of the relationship is the one the request
\* that wrote last computed from the relationship it had read, whatever the
\* other request wrote in between, so that an update can be lost
C26_LostUpdate ==
    (BothSucceeded /\ events # <<>>)
        => MemberSet(db[Parent].rel) = Computed(events[Len(events)])

\* both requests append a child and complete successfully, and the child
\* one of them appended is not a member of the relationship
C26_Witness ==
    /\ BothSucceeded
    /\ \A r \in Requests : request[r].method = "POST"
    /\ \E r \in Requests : ~(RaceNamed(r) \subseteq MemberSet(db[Parent].rel))


(***************************************************************************)
(* Claims about the calls of get_included, checked under SpecRun.          *)
(***************************************************************************)
\* the number of dot-separated segments of the longest include token
Segments ==
    LET tokens == split(included_args.include, ",")
    IN  CHOOSE n \in 1..Len(included_args.include) :
            /\ \E i \in DOMAIN tokens : Len(split(tokens[i], ".")) = n
            /\ \A i \in DOMAIN tokens : Len(split(tokens[i], ".")) <= n

\* the recursive calls in progress: the frames above that of the first call
Depth == IF stack = <<>> THEN 0 ELSE Len(stack) - 1

\* the relationship graph has a cycle
Cyclic ==
    \/ \E e \in relationships : e[1] = e[3]
    \/ \E e \in relationships, f \in relationships :
           e[1] # e[3] /\ f[1] = e[3] /\ f[3] = e[1]

\* C31 as stated: the depth of the recursion of get_included is at most
\* the number of dot-separated segments of the longest include token.
C31_DepthAtMostSegments == Depth <= Segments

\* a call made by the running call: a frame was added to the stack
Called == Len(stack') = Len(stack) + 1

\* C31 amended: get_included terminates for every include and every
\* relationship graph, cyclic or not, +all included.  A call it makes for
\* an element of a collection has the include of its caller, every other
\* call it makes has a strictly shorter include, and the depth of the
\* recursion is at most twice the number of dot-separated segments of the
\* longest include token.
C31_Terminates ==
    /\ <>(included # Unused)
    /\ [](Depth <= 2 * Segments)
    /\ [][Called =>
            IF Top.pc = "objs"
            THEN stack'[Len(stack')].include = Top.include
            ELSE Len(stack'[Len(stack')].include) < Len(Top.include)]_vars

\* a path of three segments was resolved on a graph where two instances
\* refer to each other, and both were included
C31_Witness ==
    /\ included # Unused
    /\ included_args.include = <<"dyn", ".", "dyn", ".", "dyn">>
    /\ {<<1, "dyn", 2>>, <<2, "dyn", 1>>} \subseteq relationships
    /\ Cyclic
    /\ included.set = {1, 2}

=============================================================================
